---------------------------- MODULE Spec2Model ----------------------------
(***************************************************************************)
(* State-machine model of the streak-driven quiz sessions of outlinr /     *)
(* merkmal: the endless/practice country session, the linear-tier country  *)
(* session and the noun/verb category session, together with the helpers   *)
(* they call (answer matching, shuffle, tier policy, high-score storage).  *)
(*                                                                         *)
(* Strings are sequences of one-character tokens.  A JavaScript exception  *)
(* is modelled by the flag "thrown" of the world record: the statements    *)
(* executed before the throw keep their effect, the rest of the handler is *)
(* skipped.                                                                *)
(***************************************************************************)
EXTENDS Integers, Sequences, FiniteSets, TLC

VARIABLES
  game,          \* which game.js is loaded: "endless" | "linear" | "category" | "twoMode";
                 \* or the function called on its own: "classifyCorrectGuess" | "storage"
  phase,         \* "loading" | "ready" | "failed" | "crashed"  (init() progress)
  state,         \* the game.js `state` object
  cachedPool,    \* _cachedPool: [valid, pool]
  allWords,      \* category session: allWords = { nouns, verbs }
  localStorage,  \* key -> stored string (partial function)
  timers,        \* pending setTimeout callbacks, in scheduling order
  inputLocked,   \* guessInput.disabled
  loadError,     \* last showLoadError message kind, "none" if never called
  shown,         \* item last passed to showCountry / showWord
  repeated,      \* whether the last item shown repeats the one before: "no" | "repeat" | "newRound"
  mastered,      \* ids matched by the guesses that make up the current streak (history)
  lastEvent      \* what the last handler did (observation only)

vars == << game, phase, state, cachedPool, allWords, localStorage, timers,
           inputLocked, loadError, shown, repeated, mastered, lastEvent >>

-----------------------------------------------------------------------------
(* Bounds *)

MaxStreak == 62
MaxPracticeStreak == 2
MaxWordStreak == 11
MaxTwoModeStreak == 6

-----------------------------------------------------------------------------
(* Characters and strings *)

Whitespace == {" "}

\* String.prototype.trim
RECURSIVE TrimLeft(_)
TrimLeft(s) ==
  IF s = <<>> THEN <<>>
  ELSE IF Head(s) \in Whitespace THEN TrimLeft(Tail(s)) ELSE s

RECURSIVE TrimRight(_)
TrimRight(s) ==
  IF s = <<>> THEN <<>>
  ELSE IF s[Len(s)] \in Whitespace THEN TrimRight(SubSeq(s, 1, Len(s) - 1)) ELSE s

trim(s) == TrimRight(TrimLeft(s))

\* String.prototype.normalize('NFD'): precomposed letters decompose into a
\* base letter followed by a combining mark.
NFDChar(c) ==
  CASE c = "e_acute" -> <<"e", "comb_acute">>
    [] c = "E_acute" -> <<"E", "comb_acute">>
    [] OTHER -> <<c>>

RECURSIVE NFD(_)
NFD(s) == IF s = <<>> THEN <<>> ELSE NFDChar(Head(s)) \o NFD(Tail(s))

CombiningMarks == {"comb_acute"}

\* .replace(/[U+0300-U+036F]/g, ''): remove combining marks
RECURSIVE StripCombining(_)
StripCombining(s) ==
  IF s = <<>> THEN <<>>
  ELSE IF Head(s) \in CombiningMarks THEN StripCombining(Tail(s))
       ELSE <<Head(s)>> \o StripCombining(Tail(s))

LowerChar(c) ==
  CASE c = "A" -> "a"
    [] c = "B" -> "b"
    [] c = "C" -> "c"
    [] c = "D" -> "d"
    [] c = "E" -> "e"
    [] c = "G" -> "g"
    [] c = "H" -> "h"
    [] c = "M" -> "m"
    [] c = "T" -> "t"
    [] c = "E_acute" -> "e_acute"
    [] OTHER -> c

\* String.prototype.toLowerCase
toLowerCase(s) == [i \in 1..Len(s) |-> LowerChar(s[i])]

\* .replace(/\s+/g, ' ')
RECURSIVE CollapseWhitespace(_)
CollapseWhitespace(s) ==
  IF s = <<>> THEN <<>>
  ELSE IF Head(s) \in Whitespace
       THEN <<" ">> \o CollapseWhitespace(TrimLeft(Tail(s)))
       ELSE <<Head(s)>> \o CollapseWhitespace(Tail(s))

normaliseKeepingRuns(str) == trim(toLowerCase(StripCombining(NFD(str))))

normalise(str) ==
  CollapseWhitespace(trim(toLowerCase(StripCombining(NFD(str)))))

\* matches(input, country): name or any alias, after normalisation.
matches(input, country) ==
  LET norm == normalise(input)
  IN  \/ normalise(country.name) = norm
      \/ \E i \in 1..Len(country.aliases) : normalise(country.aliases[i]) = norm

matchAnswerLowercasing(input, entry, caseInsensitive) ==
  toLowerCase(trim(input)) = toLowerCase(entry.word)

\* matchAnswer(input, entry, { caseInsensitive })
matchAnswer(input, entry, caseInsensitive) ==
  LET trimmed == trim(input)
  IN  IF caseInsensitive
      THEN toLowerCase(trimmed) = toLowerCase(entry.word)
      ELSE trimmed = entry.word

-----------------------------------------------------------------------------
(* Math.random-driven helpers *)

SwapOverwriting(a, i, j) == [a EXCEPT ![i] = a[j]]

\* [a[i], a[j]] = [a[j], a[i]]
Swap(a, i, j) == [a EXCEPT ![i] = a[j], ![j] = a[i]]

\* Fisher-Yates: for (i = len-1; i > 0; i--) { j in 0..i; swap(a[i], a[j]) }
\* (1-based here: i from Len down to 2, j in 1..i).  The set of all results
\* over every outcome of Math.random.
RECURSIVE ShuffleFrom(_, _)
ShuffleFrom(a, i) ==
  IF i <= 1 THEN {a}
  ELSE UNION { ShuffleFrom(Swap(a, i, j), i - 1) : j \in 1..i }

shuffle(arr) == ShuffleFrom(arr, Len(arr))

\* Math.floor(Math.random() * (fresh.length - 1)), as a 1-based index.
SwapIdxs(len) == IF len <= 1 THEN {1} ELSE 1..(len - 1)

-----------------------------------------------------------------------------
(* null / undefined *)

NULL == [id |-> 0]
UNDEFINED == [id |-> -1]
Truthy(x) == x # NULL /\ x # UNDEFINED

-----------------------------------------------------------------------------
(* Static data: the outcomes of the data loaders *)

Country(id, tier, name, aliases) ==
  [id |-> id, tier |-> tier, name |-> name, aliases |-> aliases]

E1 == Country(1, "easy", <<"a">>, <<>>)
E2 == Country(2, "easy", <<"b">>, << <<"b", " ", "b">> >>)
M1 == Country(3, "medium", <<"c">>, <<>>)
H1 == Country(4, "hard", <<"d">>, <<>>)
X1 == Country(5, "expert", <<"e_acute">>, <<>>)

\* Lists loadCountries() may resolve with: every tier present; two tiers
\* missing; a single country.
CountryLists ==
  { <<E1, M1, H1, X1>>,
    <<E1, E2, M1>>,
    <<H1>> }

Word(id, word) == [id |-> id, word |-> word]

N1 == Word(1, <<"M">>)
N2 == Word(2, <<"T">>)
V1 == Word(11, <<"h">>)
V2 == Word(12, <<"g">>)

\* What loadWords() and loadVerbs() may resolve with (never an empty list).
WordLists ==
  { [nouns |-> <<N1, N2>>, verbs |-> <<V1, V2>>],
    [nouns |-> <<N1>>, verbs |-> <<V1>>] }

\* What a loader's promise settles with.
Rejected(message) == [rejected |-> TRUE, message |-> message, value |-> <<>>]
Resolved(value) == [rejected |-> FALSE, message |-> "none", value |-> value]

\* What fetch() and res.json() can come to: the request aborted by the
\* timeout, a transport error, a response that is not ok, a body that is not
\* JSON, or a JSON value (an array with its items, or something else).
Fetched(kind, isArray, items) == [kind |-> kind, isArray |-> isArray, items |-> items]

FetchFailures ==
  { Fetched(k, FALSE, <<>>) : k \in {"timeout", "network", "http", "badJson"} }

loadWordFileAcceptingEmpty(o) ==
  IF o.kind = "timeout" THEN Rejected("timedOut")
  ELSE IF o.kind # "json" THEN Rejected(o.kind)
  ELSE IF ~o.isArray THEN Rejected("emptyOrMalformed")
  ELSE Resolved(o.items)

\* loadWordFile(path, label)
loadWordFile(o) ==
  IF o.kind = "timeout" THEN Rejected("timedOut")
  ELSE IF o.kind # "json" THEN Rejected(o.kind)
  ELSE IF ~o.isArray \/ Len(o.items) = 0 THEN Rejected("emptyOrMalformed")
  ELSE Resolved(o.items)

\* Promise.all([loadWords(), loadVerbs()])
loadWordFiles(pair) ==
  LET nouns == loadWordFile(pair.nouns)
      verbs == loadWordFile(pair.verbs)
  IN  IF nouns.rejected THEN nouns
      ELSE IF verbs.rejected THEN verbs
      ELSE Resolved([nouns |-> nouns.value, verbs |-> verbs.value])

\* loadCountries(); for a JSON body, `items` are the features that pass the
\* loop's filters, as the country records built from them.
loadCountries(o) ==
  IF o.kind = "timeout" THEN Rejected("timedOut")
  ELSE IF o.kind # "json" THEN Rejected(o.kind)
  ELSE IF ~o.isArray THEN Rejected("malformed")
  ELSE IF Len(o.items) = 0 THEN Rejected("nothingParsed")
  ELSE Resolved(o.items)

\* The outcomes of the country fetch.
CountryFetches ==
  FetchFailures
  \cup { Fetched("json", FALSE, <<>>), Fetched("json", TRUE, <<>>) }
  \cup { Fetched("json", TRUE, list) : list \in CountryLists }

\* The outcomes of the two word-file fetches.
WordFetches ==
  { [nouns |-> Fetched("json", TRUE, l.nouns),
     verbs |-> Fetched("json", TRUE, l.verbs)] : l \in WordLists }
  \cup { [nouns |-> f, verbs |-> Fetched("json", TRUE, <<V1>>)]
         : f \in FetchFailures \cup { Fetched("json", FALSE, <<>>),
                                      Fetched("json", TRUE, <<>>) } }
  \cup { [nouns |-> Fetched("json", TRUE, <<N1>>), verbs |-> f]
         : f \in { Fetched("http", FALSE, <<>>), Fetched("json", TRUE, <<>>) } }

RawWordInputs ==
  { <<>>, <<" ">>, <<"M">>, <<"m">>, <<" ", "T", " ">>, <<"t">>,
    <<"h">>, <<"H">>, <<"g">>, <<"z">> }

\* What the player may type.
RawInputs ==
  { <<>>, <<" ">>,
    <<"a">>, <<" ", "A", " ">>, <<"b">>, <<"B", " ", " ", "b">>,
    <<"c">>, <<"d">>, <<"e">>, <<"E_acute">>, <<"z">> }

-----------------------------------------------------------------------------
(* storage.js: the high score kept in localStorage *)

HIGH_SCORE_KEY == "high_score"

Digits == <<"0", "1", "2", "3", "4", "5", "6", "7", "8", "9">>
IsDigit(c) == \E d \in 1..10 : Digits[d] = c
DigitVal(c) == (CHOOSE d \in 1..10 : Digits[d] = c) - 1

\* String(n) for n >= 0, as localStorage.setItem stores it.
RECURSIVE NumberToString(_)
NumberToString(n) ==
  IF n < 10 THEN <<Digits[n + 1]>>
  ELSE NumberToString(n \div 10) \o <<Digits[(n % 10) + 1]>>

\* localStorage.getItem: the stored string, or null (which parseInt reads as
\* the string "null").
getItem(ls, key) == IF key \in DOMAIN ls THEN ls[key] ELSE <<"n", "u", "l", "l">>

setItem(ls, key, value) == (key :> value) @@ ls

RECURSIVE DigitPrefixVal(_, _)
DigitPrefixVal(s, acc) ==
  IF s = <<>> \/ ~IsDigit(Head(s)) THEN acc
  ELSE DigitPrefixVal(Tail(s), acc * 10 + DigitVal(Head(s)))

\* parseInt(str, 10): leading whitespace skipped, optional sign, then the
\* longest run of digits; NaN when there is none.
parseInt(str) ==
  LET t == TrimLeft(str)
      neg == t # <<>> /\ Head(t) = "-"
      u == IF t # <<>> /\ Head(t) \in {"-", "+"} THEN Tail(t) ELSE t
  IN  IF u = <<>> \/ ~IsDigit(Head(u))
      THEN [nan |-> TRUE, val |-> 0]
      ELSE [nan |-> FALSE,
            val |-> IF neg THEN 0 - DigitPrefixVal(u, 0) ELSE DigitPrefixVal(u, 0)]

getHighScoreAtUnchecked(ls, key) ==
  LET stored == parseInt(getItem(ls, key))
  IN  IF stored.nan THEN -1 ELSE stored.val

getHighScoreAt(ls, key) ==
  LET stored == parseInt(getItem(ls, key))
  IN  IF stored.nan THEN 0 ELSE stored.val

updateHighScoreAtAlways(ls, key, streak) ==
  setItem(ls, key, NumberToString(streak))

\* updateHighScore: its return value.
updateHighScoreReturns(ls, key, streak) ==
  IF streak <= getHighScoreAt(ls, key) THEN FALSE ELSE TRUE

\* updateHighScore: the storage after the call.
updateHighScoreAt(ls, key, streak) ==
  IF streak <= getHighScoreAt(ls, key) THEN ls
  ELSE setItem(ls, key, NumberToString(streak))

getHighScore(ls) == getHighScoreAt(ls, HIGH_SCORE_KEY)
updateHighScore(ls, streak) == updateHighScoreAt(ls, HIGH_SCORE_KEY, streak)

NOUN_HIGH_SCORE_KEY == "nouns_high_score"
VERB_HIGH_SCORE_KEY == "verbs_high_score"

scoreKeyDefaulting(category) ==
  IF category = "verbs" THEN VERB_HIGH_SCORE_KEY ELSE NOUN_HIGH_SCORE_KEY

\* scoreKey(category); "throw" for an unknown category.
scoreKey(category) ==
  IF category = "nouns" THEN NOUN_HIGH_SCORE_KEY
  ELSE IF category = "verbs" THEN VERB_HIGH_SCORE_KEY
  ELSE "throw"

\* getHighScore(category) as a call: whether it threw, and its value.
getHighScoreCategory(ls, category) ==
  IF scoreKey(category) = "throw"
  THEN [threw |-> TRUE, value |-> 0]
  ELSE [threw |-> FALSE, value |-> getHighScoreAt(ls, scoreKey(category))]

\* updateHighScore(category, streak) as a call: the throw of getHighScore
\* comes before the comparison and the write.
updateHighScoreCategory(ls, category, streak) ==
  IF getHighScoreCategory(ls, category).threw
  THEN [threw |-> TRUE, returned |-> FALSE, ls |-> ls]
  ELSE [threw |-> FALSE,
        returned |-> updateHighScoreReturns(ls, scoreKey(category), streak),
        ls |-> updateHighScoreAt(ls, scoreKey(category), streak)]

getHighScoreOf(ls, category) == getHighScoreAt(ls, scoreKey(category))
updateHighScoreOf(ls, category, streak) ==
  updateHighScoreAt(ls, scoreKey(category), streak)

\* What localStorage may hold when the page is opened: the country game finds
\* the record of an earlier visit, placed so that streaks below, at and above
\* the record all occur within MaxStreak.
EmptyStorage == [k \in {} |-> <<>>]
EarlierRecord == 59
InitialStorages == { HIGH_SCORE_KEY :> NumberToString(EarlierRecord) }

\* The word game finds a record for each category, both within MaxWordStreak.
EarlierNounRecord == 9
EarlierVerbRecord == 10
InitialWordStorages ==
  { (NOUN_HIGH_SCORE_KEY :> NumberToString(EarlierNounRecord))
      @@ (VERB_HIGH_SCORE_KEY :> NumberToString(EarlierVerbRecord)) }

-----------------------------------------------------------------------------
(* gameState.js *)

MODE_ORDER == <<"easy", "medium", "hard", "endless">>

isValidMode(mode) == \E i \in 1..Len(MODE_ORDER) : MODE_ORDER[i] = mode

IndexOf(seq, x) ==
  IF \E i \in 1..Len(seq) : seq[i] = x
  THEN CHOOSE i \in 1..Len(seq) : seq[i] = x /\ \A j \in 1..(i - 1) : seq[j] # x
  ELSE 0

Min(a, b) == IF a < b THEN a ELSE b

\* MODE_ORDER[Math.min(i + 1, MODE_ORDER.length - 1)], 1-based here; an
\* unknown mode has indexOf -1 and maps to the first entry.
nextModeSkipping(mode) == MODE_ORDER[Min(IndexOf(MODE_ORDER, mode) + 2, Len(MODE_ORDER))]

nextMode(mode) == MODE_ORDER[Min(IndexOf(MODE_ORDER, mode) + 1, Len(MODE_ORDER))]

getCountryPoolUnfiltered(countries, mode) == countries

getCountryPool(countries, mode) ==
  IF mode = "endless" THEN countries
  ELSE SelectSeq(countries, LAMBDA c : c.tier = mode)

classifyCorrectGuessMilestoneFirst(newStreak, poolSize) ==
  IF newStreak % 5 = 0 THEN "milestone"
  ELSE IF newStreak = poolSize THEN "completion"
  ELSE "correct"

classifyCorrectGuess(newStreak, poolSize) ==
  IF newStreak = poolSize THEN "completion"
  ELSE IF newStreak % 5 = 0 THEN "milestone"
  ELSE "correct"

ENDLESS_TIERS == <<"easy", "medium", "hard", "expert">>

\* ENDLESS_WEIGHT_BRACKETS: inclusive upper streak bound of each bracket; the
\* last bracket is unbounded (Infinity).
BracketEasyMax == 20
BracketMediumMax == 40
BracketHardMax == 60

getEndlessWeightsExclusive(streak) ==
  IF streak < BracketEasyMax
  THEN [easy |-> 100, medium |-> 0, hard |-> 0, expert |-> 0]
  ELSE IF streak < BracketMediumMax
  THEN [easy |-> 0, medium |-> 100, hard |-> 0, expert |-> 0]
  ELSE IF streak < BracketHardMax
  THEN [easy |-> 0, medium |-> 0, hard |-> 100, expert |-> 0]
  ELSE [easy |-> 0, medium |-> 0, hard |-> 0, expert |-> 100]

\* Weights in hundredths.
getEndlessWeights(streak) ==
  IF streak <= BracketEasyMax
  THEN [easy |-> 100, medium |-> 0, hard |-> 0, expert |-> 0]
  ELSE IF streak <= BracketMediumMax
  THEN [easy |-> 0, medium |-> 100, hard |-> 0, expert |-> 0]
  ELSE IF streak <= BracketHardMax
  THEN [easy |-> 0, medium |-> 0, hard |-> 100, expert |-> 0]
  ELSE [easy |-> 0, medium |-> 0, hard |-> 0, expert |-> 100]

(* The gameState.js imported by the endless/practice session: two modes, the
   practice pool is every country, and the active tier of endless mode is the
   tier of the streak's bracket. *)
EndlessModes == <<"practice", "endless">>

isValidModeEndless(mode) == \E i \in 1..Len(EndlessModes) : EndlessModes[i] = mode

getCountryPoolEndless(countries, mode) == countries

getActiveTier(mode, streak) ==
  LET w == getEndlessWeights(streak)
  IN  CHOOSE t \in {"easy", "medium", "hard", "expert"} : w[t] = 100

-----------------------------------------------------------------------------
(* The world a handler runs in: every mutable thing it can touch, plus
   `thrown` (an exception is propagating), `adv` (what the last advance()
   of this handler did) and `dropped` (how many queued items a refill of
   that advance() threw away). *)

World ==
  [ state |-> state, cachedPool |-> cachedPool, localStorage |-> localStorage,
    timers |-> timers, inputLocked |-> inputLocked, loadError |-> loadError,
    shown |-> shown, repeated |-> repeated, thrown |-> FALSE, adv |-> "none",
    dropped |-> 0, outcome |-> "none" ]

NoCache == [valid |-> FALSE, pool |-> <<>>]
NoShown == [item |-> NULL, mode |-> "none", tier |-> "none"]

\* const TIMINGS: the delay decides nothing but the order of firing, which is
\* left open; a pending callback is identified by what it runs.
AdvanceTimer == [kind |-> "advance"]
CompletionTimer == [kind |-> "completion"]

setTimeout(w, callback) == [w EXCEPT !.timers = Append(@, callback)]

setInputLocked(w, locked) == [w EXCEPT !.inputLocked = locked]

\* showLoading() disables the guess input, hideLoading() enables it.
showLoading(w) == [w EXCEPT !.inputLocked = TRUE]
hideLoading(w) == [w EXCEPT !.inputLocked = FALSE]

\* showLoadError replaces the game screen by the message.
showLoadError(w, message) == [w EXCEPT !.loadError = message]

\* showCountry(country) / showWord(word): reads a property of its argument,
\* so an undefined argument raises a TypeError.
ModeOf(s) == IF "mode" \in DOMAIN s THEN s.mode ELSE s.category

\* `before` is state.current as advance() found it: an item when the draw
\* continues a round, null when it opens one.  `repeated` records whether the
\* new item has the id, mode and tier of the one shown before it.
showItem(w, item, tier, before) ==
  IF ~Truthy(item) THEN [w EXCEPT !.thrown = TRUE, !.adv = "undefined"]
  ELSE LET next == [item |-> item, mode |-> ModeOf(w.state), tier |-> tier]
           same == /\ w.shown.item.id = item.id
                   /\ w.shown.mode = next.mode
                   /\ w.shown.tier = tier
       IN  [w EXCEPT !.repeated = IF ~same THEN "no"
                                  ELSE IF Truthy(before) THEN "repeat"
                                  ELSE "newRound",
                     !.shown = next,
                     !.adv = "drew"]

\* `shown` and `repeated` describe consecutive draws within one mode or
\* category: a change of state.mode / state.category starts them afresh.
enterMode(w, mode) ==
  IF mode = ModeOf(w.state) THEN w
  ELSE [w EXCEPT !.shown = NoShown, !.repeated = "no"]

Last(seq) == seq[Len(seq)]
Front(seq) == SubSeq(seq, 1, Len(seq) - 1)

PopCurrentKeepsQueue(w) ==
  IF w.state.remaining = <<>>
  THEN [w EXCEPT !.state.current = UNDEFINED]
  ELSE [w EXCEPT !.state.current = Last(w.state.remaining)]

\* state.current = state.remaining.pop()
PopCurrent(w) ==
  IF w.state.remaining = <<>>
  THEN [w EXCEPT !.state.current = UNDEFINED]
  ELSE [w EXCEPT !.state.current = Last(w.state.remaining),
                 !.state.remaining = Front(w.state.remaining)]

\* The anti-repeat swap of a freshly shuffled queue: every array the
\* `if (state.current && fresh[last].id === state.current.id)` statement can
\* leave in `fresh`; THROWN when reading fresh[last].id raises.
THROWN == << [id |-> -2] >>

SwapRuleOverwriting(fresh, current) ==
  IF ~Truthy(current) THEN {fresh}
  ELSE IF fresh = <<>> THEN {THROWN}
  ELSE IF Last(fresh).id = current.id
       THEN { [fresh EXCEPT ![Len(fresh)] = fresh[i]] : i \in SwapIdxs(Len(fresh)) }
       ELSE {fresh}

SwapRule(fresh, current) ==
  IF ~Truthy(current) THEN {fresh}
  ELSE IF fresh = <<>> THEN {THROWN}
  ELSE IF Last(fresh).id = current.id
       THEN { Swap(fresh, i, Len(fresh)) : i \in SwapIdxs(Len(fresh)) }
       ELSE {fresh}

-----------------------------------------------------------------------------
(* The endless/practice session *)

countryPoolEndless(w) ==
  IF w.cachedPool.valid THEN w
  ELSE [w EXCEPT !.cachedPool =
          [valid |-> TRUE,
           pool |-> getCountryPoolEndless(w.state.countries, w.state.mode)]]

refillsOnlyWhenEmpty(remaining, tierChanged) == remaining = <<>>

\* if (state.remaining.length === 0 || tierChanged)
refills(remaining, tierChanged) == remaining = <<>> \/ tierChanged

\* advance(): the set of worlds it can leave, over every random outcome.
advanceEndless(w0) ==
  LET w == countryPoolEndless(w0)
      pool == w.cachedPool.pool
  IN
  IF Len(pool) = 0
  THEN { [showLoadError(w, "noItems") EXCEPT !.adv = "noItems"] }
  ELSE IF w.state.mode = "endless"
  THEN
    LET tier == getActiveTier("endless", w.state.streak)
        tierChanged == tier # w.state.endlessTier
    IN
    IF refills(w.state.remaining, tierChanged)
    THEN
      LET w1 == [w EXCEPT !.state.endlessTier = tier,
                          !.dropped = Len(w.state.remaining)]
          tierPool == SelectSeq(w.state.countries, LAMBDA c : c.tier = tier)
          Refills(fresh) ==
            IF tierChanged THEN {fresh} ELSE SwapRule(fresh, w.state.current)
      IN
      { IF r = THROWN
        THEN [w1 EXCEPT !.thrown = TRUE, !.adv = "threw"]
        ELSE LET w2 == PopCurrent([w1 EXCEPT !.state.remaining = r])
             IN  showItem(w2, w2.state.current, tier, w.state.current)
        : r \in UNION { Refills(fresh) : fresh \in shuffle(tierPool) } }
    ELSE
      LET w2 == PopCurrent(w)
      IN  { showItem(w2, w2.state.current, tier, w.state.current) }
  ELSE
    IF w.state.remaining = <<>>
    THEN
      { IF r = THROWN
        THEN [w EXCEPT !.thrown = TRUE, !.adv = "threw"]
        ELSE LET w2 == PopCurrent([w EXCEPT !.state.remaining = r])
             IN  showItem(w2, w2.state.current, "none", w.state.current)
        : r \in UNION { SwapRule(fresh, w.state.current) : fresh \in shuffle(pool) } }
    ELSE
      LET w2 == PopCurrent(w)
      IN  { showItem(w2, w2.state.current, "none", w.state.current) }

\* The settle callback without its setInputLocked(false).
SettleEndlessKeepsLock(w) ==
  { IF a.thrown THEN a
    ELSE [a EXCEPT !.state.animating = FALSE]
    : a \in advanceEndless(w) }

\* The body of the settle callbacks: advance(); animating = false; unlock.
SettleEndless(w) ==
  { IF a.thrown THEN a
    ELSE setInputLocked([a EXCEPT !.state.animating = FALSE], FALSE)
    : a \in advanceEndless(w) }

handleStreakResetEndless(w, doShake) ==
  LET w1 == setInputLocked(
              [w EXCEPT !.state.streak = 0,
                        !.state.remaining = <<>>,
                        !.state.animating = TRUE], TRUE)
  IN  \* showAnswer(state.current.name)
      IF ~Truthy(w1.state.current) THEN [w1 EXCEPT !.thrown = TRUE]
      ELSE setTimeout(w1, AdvanceTimer)

resetStateEndless(w, mode) ==
  LET w1 == [enterMode(w, mode) EXCEPT !.state.mode = mode,
                      !.cachedPool = NoCache,
                      !.state.streak = 0,
                      !.state.animating = FALSE,
                      !.state.endlessTier = "null"]
      w2 == IF mode = "endless" THEN w1 ELSE countryPoolEndless(w1)
      Queues == IF mode = "endless" THEN { <<>> } ELSE shuffle(w2.cachedPool.pool)
  IN  UNION { advanceEndless(
                setInputLocked([w2 EXCEPT !.state.remaining = q,
                                          !.state.current = NULL], FALSE))
              : q \in Queues }


Outcome(w, o) == [w EXCEPT !.outcome = o]

isCorrectThrows(w) == ~Truthy(w.state.current)

\* The test of the category session's handleGuess:
\* matchAnswer(raw, state.current, { caseInsensitive: state.category === 'verbs' })
guessMatchesCategory(raw, current, category) ==
  matchAnswer(raw, current, category = "verbs")

\* handleGuess(raw) past its animating guard: the world it leaves, tagged with
\* what it did.
evaluateGuessEndless(w, raw) ==
  IF trim(raw) = <<>>
  THEN Outcome(handleStreakResetEndless(w, FALSE), "skip")
  ELSE IF isCorrectThrows(w)
  THEN Outcome([w EXCEPT !.thrown = TRUE], "threw")
  ELSE IF matches(raw, w.state.current)
  THEN
    LET w1 == [w EXCEPT !.state.streak = @ + 1, !.state.animating = TRUE]
        w2 == countryPoolEndless(w1)
        result == classifyCorrectGuess(w2.state.streak, Len(w2.cachedPool.pool))
        isCompletion == /\ w2.state.mode = "endless"
                        /\ getActiveTier("endless", w2.state.streak) = "expert"
                        /\ w2.state.remaining = <<>>
        w3 == setInputLocked(w2, TRUE)
    IN  IF isCompletion
        THEN Outcome(
               setTimeout([w3 EXCEPT !.localStorage =
                             updateHighScore(@, w3.state.streak)],
                          CompletionTimer),
               "completion")
        ELSE Outcome(setTimeout(w3, AdvanceTimer),
                     IF result = "milestone" THEN "milestone" ELSE "correct")
  ELSE
    LET w1 == IF w.state.mode = "endless" /\ w.state.streak > 0
              THEN [w EXCEPT !.localStorage = updateHighScore(@, w.state.streak)]
              ELSE w
    IN  Outcome(handleStreakResetEndless(w1, TRUE), "wrong")

handleGuessEndlessUnguarded(w, raw) == evaluateGuessEndless(w, raw)

\* handleGuess(raw)
handleGuessEndless(w, raw) ==
  IF w.state.animating THEN Outcome(w, "rejected")
  ELSE evaluateGuessEndless(w, raw)

setModeEndlessUnguarded(w, mode) ==
  IF ~isValidModeEndless(mode) THEN { Outcome(w, "invalid") }
  ELSE IF mode = w.state.mode THEN { Outcome(w, "same") }
  ELSE { Outcome(r, "switched") : r \in resetStateEndless(w, mode) }

\* setMode(mode)
setModeEndless(w, mode) ==
  IF ~isValidModeEndless(mode) THEN { Outcome(w, "invalid") }
  ELSE IF w.state.animating THEN { Outcome(w, "rejected") }
  ELSE IF mode = w.state.mode THEN { Outcome(w, "same") }
  ELSE { Outcome(r, "switched") : r \in resetStateEndless(w, mode) }

timerEndlessNoRestart(w, callback) ==
  IF callback.kind = "completion"
  THEN { Outcome(r, "completion") : r \in SettleEndless(w) }
  ELSE { Outcome(r, "advance") : r \in SettleEndless(w) }

\* The setTimeout callbacks.
timerEndless(w, callback) ==
  IF callback.kind = "completion"
  THEN { Outcome(r, "completion")
         : r \in resetStateEndless([w EXCEPT !.state.animating = FALSE], "endless") }
  ELSE { Outcome(r, "advance") : r \in SettleEndless(w) }

\* init(), after loadCountries() resolved with `list`.
loadedEndless(w, list) ==
  { Outcome(r, "loaded")
    : r \in resetStateEndless(hideLoading([w EXCEPT !.state.countries = list]),
                              w.state.mode) }

InitialStateEndless ==
  [ countries |-> <<>>, remaining |-> <<>>, current |-> NULL, streak |-> 0,
    animating |-> FALSE, mode |-> "endless", endlessTier |-> "null" ]

-----------------------------------------------------------------------------
(* The linear-tier session *)

countryPoolLinear(w) ==
  IF w.cachedPool.valid THEN w
  ELSE [w EXCEPT !.cachedPool =
          [valid |-> TRUE,
           pool |-> getCountryPool(w.state.countries, w.state.mode)]]

advanceLinear(w0) ==
  LET w == countryPoolLinear(w0)
      pool == w.cachedPool.pool
  IN
  IF Len(pool) = 0
  THEN { [showLoadError(w, "noItems") EXCEPT !.adv = "noItems"] }
  ELSE IF w.state.remaining = <<>>
  THEN
    { IF r = THROWN
      THEN [w EXCEPT !.thrown = TRUE, !.adv = "threw"]
      ELSE LET w2 == PopCurrent([w EXCEPT !.state.remaining = r])
           IN  showItem(w2, w2.state.current, "none", w.state.current)
      : r \in UNION { SwapRule(fresh, w.state.current) : fresh \in shuffle(pool) } }
  ELSE
    LET w2 == PopCurrent(w)
    IN  { showItem(w2, w2.state.current, "none", w.state.current) }

SettleLinear(w) ==
  { IF a.thrown THEN a
    ELSE setInputLocked([a EXCEPT !.state.animating = FALSE], FALSE)
    : a \in advanceLinear(w) }

handleStreakResetLinear(w, doShake) ==
  LET w1 == setInputLocked(
              [w EXCEPT !.state.streak = 0, !.state.animating = TRUE], TRUE)
  IN  \* showAnswer(state.current.name)
      IF ~Truthy(w1.state.current) THEN [w1 EXCEPT !.thrown = TRUE]
      ELSE setTimeout(w1, AdvanceTimer)

resetStateLinear(w, mode) ==
  LET w1 == countryPoolLinear(
              [enterMode(w, mode) EXCEPT !.state.mode = mode,
                        !.cachedPool = NoCache,
                        !.state.streak = 0,
                        !.state.animating = FALSE])
  IN  UNION { advanceLinear(
                setInputLocked([w1 EXCEPT !.state.remaining = q,
                                          !.state.current = NULL], FALSE))
              : q \in shuffle(w1.cachedPool.pool) }

handleGuessLinear(w, raw) ==
  IF w.state.animating THEN Outcome(w, "rejected")
  ELSE IF trim(raw) = <<>>
  THEN Outcome(handleStreakResetLinear(w, FALSE), "skip")
  ELSE IF isCorrectThrows(w)
  THEN Outcome([w EXCEPT !.thrown = TRUE], "threw")
  ELSE IF matches(raw, w.state.current)
  THEN
    LET w1 == countryPoolLinear(
                [w EXCEPT !.state.streak = @ + 1, !.state.animating = TRUE])
        result == classifyCorrectGuess(w1.state.streak, Len(w1.cachedPool.pool))
        w2 == setInputLocked(w1, TRUE)
    IN  IF result = "completion"
        THEN Outcome(setTimeout(w2, CompletionTimer), "completion")
        ELSE Outcome(setTimeout(w2, AdvanceTimer), result)
  ELSE Outcome(handleStreakResetLinear(w, TRUE), "wrong")

setModeLinear(w, mode) ==
  IF ~isValidMode(mode) THEN { Outcome(w, "invalid") }
  ELSE IF w.state.animating THEN { Outcome(w, "rejected") }
  ELSE IF mode = w.state.mode THEN { Outcome(w, "same") }
  ELSE { Outcome(r, "switched") : r \in resetStateLinear(w, mode) }

timerLinear(w, callback) ==
  IF callback.kind = "completion"
  THEN { Outcome(r, "completion")
         : r \in resetStateLinear([w EXCEPT !.state.animating = FALSE],
                                  nextMode(w.state.mode)) }
  ELSE { Outcome(r, "advance") : r \in SettleLinear(w) }

\* init(), after loadCountries() resolved with `list`:
\* state.remaining = shuffle(countryPool()); advance().
loadedLinear(w, list) ==
  LET w1 == countryPoolLinear(hideLoading([w EXCEPT !.state.countries = list]))
  IN  UNION { { Outcome(r, "loaded")
                : r \in advanceLinear([w1 EXCEPT !.state.remaining = q]) }
              : q \in shuffle(w1.cachedPool.pool) }

InitialStateLinear ==
  [ countries |-> <<>>, remaining |-> <<>>, current |-> NULL, streak |-> 0,
    animating |-> FALSE, mode |-> "easy" ]

-----------------------------------------------------------------------------
(* The category session *)

persistStreakIfBestNever(w) == w

persistStreakIfBest(w) ==
  IF w.state.streak > 0
  THEN [w EXCEPT !.localStorage =
          updateHighScoreOf(@, w.state.category, w.state.streak)]
  ELSE w

advanceCategory(w) ==
  IF Len(w.state.words) = 0
  THEN { [showLoadError(w, "noItems") EXCEPT !.adv = "noItems"] }
  ELSE IF w.state.remaining = <<>>
  THEN
    { IF r = THROWN
      THEN [w EXCEPT !.thrown = TRUE, !.adv = "threw"]
      ELSE LET w2 == PopCurrent([w EXCEPT !.state.remaining = r])
           IN  showItem(w2, w2.state.current, "none", w.state.current)
      : r \in UNION { SwapRule(fresh, w.state.current)
                      : fresh \in shuffle(w.state.words) } }
  ELSE
    LET w2 == PopCurrent(w)
    IN  { showItem(w2, w2.state.current, "none", w.state.current) }

SettleCategory(w) ==
  { IF a.thrown THEN a
    ELSE setInputLocked([a EXCEPT !.state.animating = FALSE], FALSE)
    : a \in advanceCategory(w) }

handleStreakResetCategoryKeepsStreak(w, doShake) ==
  LET w1 == setInputLocked(
              [w EXCEPT !.state.remaining = <<>>,
                        !.state.animating = TRUE], TRUE)
  IN  IF ~Truthy(w1.state.current) THEN [w1 EXCEPT !.thrown = TRUE]
      ELSE setTimeout(w1, AdvanceTimer)

handleStreakResetCategory(w, doShake) ==
  LET w1 == setInputLocked(
              [w EXCEPT !.state.streak = 0,
                        !.state.remaining = <<>>,
                        !.state.animating = TRUE], TRUE)
  IN  \* showAnswer(state.current.word)
      IF ~Truthy(w1.state.current) THEN [w1 EXCEPT !.thrown = TRUE]
      ELSE setTimeout(w1, AdvanceTimer)

handleGuessCategory(w, raw) ==
  IF w.state.animating THEN Outcome(w, "rejected")
  ELSE IF trim(raw) = <<>>
  THEN Outcome(handleStreakResetCategory(w, FALSE), "skip")
  ELSE IF isCorrectThrows(w)
  THEN Outcome([w EXCEPT !.thrown = TRUE], "threw")
  ELSE IF guessMatchesCategory(raw, w.state.current, w.state.category)
  THEN
    LET w1 == setInputLocked(
                [w EXCEPT !.state.streak = @ + 1, !.state.animating = TRUE], TRUE)
        isMilestone == w1.state.streak % 10 = 0
    IN  Outcome(setTimeout(w1, AdvanceTimer),
                IF isMilestone THEN "milestone" ELSE "correct")
  ELSE Outcome(handleStreakResetCategory(persistStreakIfBest(w), TRUE), "wrong")

\* switchCategory(newCategory) past its two guards.
enterCategoryNoPersist(w, words, newCategory) ==
  LET w2 == [enterMode(w, newCategory) EXCEPT
                       !.state.category = newCategory,
                       !.state.words = words[newCategory],
                       !.state.streak = 0,
                       !.state.remaining = <<>>,
                       !.state.current = NULL]
  IN  { Outcome(r, "switched") : r \in advanceCategory(w2) }

\* The streak saved after the category field has changed.
enterCategoryPersistsLate(w, words, newCategory) ==
  LET w1 == persistStreakIfBest(
              [enterMode(w, newCategory) EXCEPT !.state.category = newCategory])
      w2 == [w1 EXCEPT !.state.words = words[newCategory],
                       !.state.streak = 0,
                       !.state.remaining = <<>>,
                       !.state.current = NULL]
  IN  { Outcome(r, "switched") : r \in advanceCategory(w2) }

enterCategory(w, words, newCategory) ==
  LET w1 == persistStreakIfBest(enterMode(w, newCategory))
      w2 == [w1 EXCEPT !.state.category = newCategory,
                       !.state.words = words[newCategory],
                       !.state.streak = 0,
                       !.state.remaining = <<>>,
                       !.state.current = NULL]
  IN  { Outcome(r, "switched") : r \in advanceCategory(w2) }

switchCategory(w, words, newCategory) ==
  IF newCategory = w.state.category THEN { Outcome(w, "same") }
  ELSE IF w.state.animating THEN { Outcome(w, "rejected") }
  ELSE enterCategory(w, words, newCategory)

resetStateCategory(w) ==
  advanceCategory(
    setInputLocked([w EXCEPT !.state.streak = 0,
                             !.state.animating = FALSE,
                             !.state.remaining = <<>>,
                             !.state.current = NULL], FALSE))

timerCategory(w, callback) ==
  { Outcome(r, "advance") : r \in SettleCategory(w) }

\* init(), after loadWords() and loadVerbs() both resolved.
loadedCategory(w, lists) ==
  { Outcome(r, "loaded")
    : r \in resetStateCategory(hideLoading([w EXCEPT !.state.category = "nouns",
                                                     !.state.words = lists.nouns])) }

InitialStateCategory ==
  [ category |-> "nouns", words |-> <<>>, remaining |-> <<>>, current |-> NULL,
    streak |-> 0, animating |-> FALSE ]

-----------------------------------------------------------------------------
(* Events *)

Event(kind, w) ==
  [kind |-> kind, outcome |-> w.outcome, threw |-> w.thrown, adv |-> w.adv,
   dropped |-> w.dropped]

\* The handler has run to its end (or to its throw): its world becomes the
\* state.
Commit(kind, w) ==
  /\ state' = w.state
  /\ cachedPool' = w.cachedPool
  /\ localStorage' = w.localStorage
  /\ timers' = w.timers
  /\ inputLocked' = w.inputLocked
  /\ loadError' = w.loadError
  /\ shown' = w.shown
  /\ repeated' = w.repeated
  /\ mastered' = IF w.state.streak = 0 THEN {}
                 ELSE IF w.state.streak = state.streak + 1
                 THEN mastered \cup {state.current.id}
                 ELSE mastered
  /\ lastEvent' = Event(kind, w)

RemoveAt(seq, i) == SubSeq(seq, 1, i - 1) \o SubSeq(seq, i + 1, Len(seq))

StreakCap(s) ==
  IF game = "category" THEN MaxWordStreak
  ELSE IF game = "twoMode" \/ game = "original" THEN MaxTwoModeStreak
  ELSE IF game = "endless" /\ s.mode = "practice" THEN MaxPracticeStreak
  ELSE MaxStreak

ModeInputs == {"practice", "endless", "easy", "medium", "hard", "expert"}

InitEndless ==
  /\ game = "endless"
  /\ phase = "loading"
  /\ state = InitialStateEndless
  /\ cachedPool = NoCache
  /\ allWords = [nouns |-> <<>>, verbs |-> <<>>]
  /\ localStorage \in InitialStorages
  /\ timers = <<>>
  /\ inputLocked = TRUE
  /\ loadError = "none"
  /\ shown = NoShown
  /\ repeated = "no"
  /\ mastered = {}
  /\ lastEvent = [kind |-> "init", outcome |-> "none", threw |-> FALSE,
                  adv |-> "none", dropped |-> 0]

\* loadCountries() resolves; the rest of init()'s try block runs, and its
\* catch turns an exception into the load-error screen.
LoadEndless ==
  /\ game = "endless"
  /\ phase = "loading"
  /\ \E o \in CountryFetches :
       /\ ~loadCountries(o).rejected
       /\ \E w \in loadedEndless(World, loadCountries(o).value) :
            /\ Commit("load", IF w.thrown THEN showLoadError(w, "exception") ELSE w)
            /\ phase' = IF w.thrown THEN "crashed" ELSE "ready"
  /\ UNCHANGED << game, allWords >>

\* The loader's promise rejects: the catch of init() shows the load error
\* with init as its retry.
LoadFail ==
  /\ phase = "loading"
  /\ IF game = "category"
     THEN \E pair \in WordFetches : loadWordFiles(pair).rejected
     ELSE \E o \in CountryFetches : loadCountries(o).rejected
  /\ Commit("load", Outcome(showLoadError(World, "loadFailed"), "failed"))
  /\ phase' = "failed"
  /\ UNCHANGED << game, allWords >>

\* The "try again" button of the load-error screen runs init() again.
Retry ==
  /\ phase = "failed"
  /\ Commit("retry", showLoading(World))
  /\ phase' = "loading"
  /\ UNCHANGED << game, allWords >>

\* Enter pressed: handleGuess(input.value).  The input is disabled until
\* hideLoading().
HandleGuessEndless ==
  /\ game = "endless"
  /\ phase \in {"ready", "crashed"}
  /\ \E raw \in RawInputs :
       LET w == handleGuessEndless(World, raw)
       IN  /\ w.outcome \in {"correct", "milestone", "completion"}
             => state.streak < StreakCap(state)
           /\ Commit("guess", w)
  /\ UNCHANGED << game, phase, allWords >>

SetModeEndless ==
  /\ game = "endless"
  /\ \E mode \in ModeInputs : \E w \in setModeEndless(World, mode) :
       Commit("setMode", w)
  /\ UNCHANGED << game, phase, allWords >>

TimerEndless ==
  /\ game = "endless"
  /\ \E i \in 1..Len(timers) :
       \E w \in timerEndless([World EXCEPT !.timers = RemoveAt(timers, i)], timers[i]) :
         Commit("timer", w)
  /\ UNCHANGED << game, phase, allWords >>

InitLinear ==
  /\ game = "linear"
  /\ phase = "loading"
  /\ state = InitialStateLinear
  /\ cachedPool = NoCache
  /\ allWords = [nouns |-> <<>>, verbs |-> <<>>]
  /\ localStorage = EmptyStorage
  /\ timers = <<>>
  /\ inputLocked = TRUE
  /\ loadError = "none"
  /\ shown = NoShown
  /\ repeated = "no"
  /\ mastered = {}
  /\ lastEvent = [kind |-> "init", outcome |-> "none", threw |-> FALSE,
                  adv |-> "none", dropped |-> 0]

LoadLinear ==
  /\ game = "linear"
  /\ phase = "loading"
  /\ \E o \in CountryFetches :
       /\ ~loadCountries(o).rejected
       /\ \E w \in loadedLinear(World, loadCountries(o).value) :
            /\ Commit("load", IF w.thrown THEN showLoadError(w, "exception") ELSE w)
            /\ phase' = IF w.thrown THEN "crashed" ELSE "ready"
  /\ UNCHANGED << game, allWords >>

HandleGuessLinear ==
  /\ game = "linear"
  /\ phase \in {"ready", "crashed"}
  /\ \E raw \in RawInputs :
       LET w == handleGuessLinear(World, raw)
       IN  /\ w.outcome \in {"correct", "milestone", "completion"}
             => state.streak < StreakCap(state)
           /\ Commit("guess", w)
  /\ UNCHANGED << game, phase, allWords >>

SetModeLinear ==
  /\ game = "linear"
  /\ \E mode \in ModeInputs : \E w \in setModeLinear(World, mode) :
       Commit("setMode", w)
  /\ UNCHANGED << game, phase, allWords >>

TimerLinear ==
  /\ game = "linear"
  /\ \E i \in 1..Len(timers) :
       \E w \in timerLinear([World EXCEPT !.timers = RemoveAt(timers, i)], timers[i]) :
         Commit("timer", w)
  /\ UNCHANGED << game, phase, allWords >>

NextLinear ==
  \/ LoadLinear
  \/ LoadFail
  \/ Retry
  \/ HandleGuessLinear
  \/ SetModeLinear
  \/ TimerLinear

SpecLinear == InitLinear /\ [][NextLinear]_vars

CategoryInputs == {"nouns", "verbs"}

InitCategory ==
  /\ game = "category"
  /\ phase = "loading"
  /\ state = InitialStateCategory
  /\ cachedPool = NoCache
  /\ allWords = [nouns |-> <<>>, verbs |-> <<>>]
  /\ localStorage \in InitialWordStorages
  /\ timers = <<>>
  /\ inputLocked = TRUE
  /\ loadError = "none"
  /\ shown = NoShown
  /\ repeated = "no"
  /\ mastered = {}
  /\ lastEvent = [kind |-> "init", outcome |-> "none", threw |-> FALSE,
                  adv |-> "none", dropped |-> 0]

LoadCategory ==
  /\ game = "category"
  /\ phase = "loading"
  /\ \E pair \in WordFetches :
       /\ ~loadWordFiles(pair).rejected
       /\ \E w \in loadedCategory(World, loadWordFiles(pair).value) :
            /\ allWords' = loadWordFiles(pair).value
            /\ Commit("load", IF w.thrown THEN showLoadError(w, "exception") ELSE w)
            /\ phase' = IF w.thrown THEN "crashed" ELSE "ready"
  /\ UNCHANGED game

HandleGuessCategory ==
  /\ game = "category"
  /\ phase \in {"ready", "crashed"}
  /\ \E raw \in RawWordInputs :
       LET w == handleGuessCategory(World, raw)
       IN  /\ w.outcome \in {"correct", "milestone"}
             => state.streak < StreakCap(state)
           /\ Commit("guess", w)
  /\ UNCHANGED << game, phase, allWords >>

SwitchCategory ==
  /\ game = "category"
  /\ \E c \in CategoryInputs : \E w \in switchCategory(World, allWords, c) :
       Commit("switch", w)
  /\ UNCHANGED << game, phase, allWords >>

TimerCategory ==
  /\ game = "category"
  /\ \E i \in 1..Len(timers) :
       \E w \in timerCategory([World EXCEPT !.timers = RemoveAt(timers, i)], timers[i]) :
         Commit("timer", w)
  /\ UNCHANGED << game, phase, allWords >>

NextCategory ==
  \/ LoadCategory
  \/ LoadFail
  \/ Retry
  \/ HandleGuessCategory
  \/ SwitchCategory
  \/ TimerCategory

SpecCategory == InitCategory /\ [][NextCategory]_vars

NextEndless ==
  \/ LoadEndless
  \/ LoadFail
  \/ Retry
  \/ HandleGuessEndless
  \/ SetModeEndless
  \/ TimerEndless

SpecEndless == InitEndless /\ [][NextEndless]_vars

\* Every scheduled setTimeout callback eventually runs.
FairSpecEndless == SpecEndless /\ WF_vars(TimerEndless)

FairSpecLinear == SpecLinear /\ WF_vars(TimerLinear)

\* The three sessions, one of which the page loads.
-----------------------------------------------------------------------------
(* The two-mode session (easy / hard) *)

VALID_MODES == <<"easy", "hard">>

isValidModeTwoMode(mode) == \E i \in 1..Len(VALID_MODES) : VALID_MODES[i] = mode

getCountryPoolTwoMode(countries, mode) ==
  SelectSeq(countries, LAMBDA c : c.tier = mode)

classifyCorrectGuessTwoMode(mode, newStreak, poolSize) ==
  IF mode = "easy" /\ newStreak = poolSize THEN "completion"
  ELSE IF newStreak % 5 = 0 THEN "milestone"
  ELSE "correct"

countryPoolTwoMode(w) ==
  IF w.cachedPool.valid THEN w
  ELSE [w EXCEPT !.cachedPool =
          [valid |-> TRUE,
           pool |-> getCountryPoolTwoMode(w.state.countries, w.state.mode)]]

advanceTwoMode(w0) ==
  LET w == countryPoolTwoMode(w0)
      pool == w.cachedPool.pool
  IN
  IF Len(pool) = 0
  THEN { [showLoadError(w, "noItems") EXCEPT !.adv = "noItems"] }
  ELSE IF w.state.remaining = <<>>
  THEN
    { IF r = THROWN
      THEN [w EXCEPT !.thrown = TRUE, !.adv = "threw"]
      ELSE LET w2 == PopCurrent([w EXCEPT !.state.remaining = r])
           IN  showItem(w2, w2.state.current, "none", w.state.current)
      : r \in UNION { SwapRule(fresh, w.state.current) : fresh \in shuffle(pool) } }
  ELSE
    LET w2 == PopCurrent(w)
    IN  { showItem(w2, w2.state.current, "none", w.state.current) }

SettleTwoMode(w) ==
  { IF a.thrown THEN a
    ELSE setInputLocked([a EXCEPT !.state.animating = FALSE], FALSE)
    : a \in advanceTwoMode(w) }

handleStreakResetTwoMode(w, doShake) ==
  LET w1 == setInputLocked(
              [w EXCEPT !.state.streak = 0, !.state.animating = TRUE], TRUE)
  IN  \* showAnswer(state.current.name)
      IF ~Truthy(w1.state.current) THEN [w1 EXCEPT !.thrown = TRUE]
      ELSE setTimeout(w1, AdvanceTimer)

handleGuessTwoMode(w, raw) ==
  IF w.state.animating THEN Outcome(w, "rejected")
  ELSE IF trim(raw) = <<>>
  THEN Outcome(handleStreakResetTwoMode(w, FALSE), "skip")
  ELSE IF isCorrectThrows(w)
  THEN Outcome([w EXCEPT !.thrown = TRUE], "threw")
  ELSE IF matches(raw, w.state.current)
  THEN
    LET w1 == countryPoolTwoMode(
                [w EXCEPT !.state.streak = @ + 1, !.state.animating = TRUE])
        result == classifyCorrectGuessTwoMode(w1.state.mode, w1.state.streak,
                                              Len(w1.cachedPool.pool))
        w2 == setInputLocked(w1, TRUE)
    IN  IF result = "completion"
        THEN Outcome(setTimeout(w2, CompletionTimer), "completion")
        ELSE Outcome(setTimeout(w2, AdvanceTimer), result)
  ELSE Outcome(handleStreakResetTwoMode(w, TRUE), "wrong")

setModeTwoModeAlways(w, mode) ==
  IF w.state.animating THEN { Outcome(w, "rejected") }
  ELSE
    LET w1 == countryPoolTwoMode(
                [enterMode(w, mode) EXCEPT !.state.mode = mode,
                                           !.cachedPool = NoCache,
                                           !.state.streak = 0,
                                           !.state.animating = FALSE])
    IN  UNION { { Outcome(r, "switched")
                  : r \in advanceTwoMode(
                            setInputLocked([w1 EXCEPT !.state.remaining = q,
                                                      !.state.current = NULL],
                                           FALSE)) }
                : q \in shuffle(w1.cachedPool.pool) }

setModeTwoMode(w, mode) ==
  IF ~isValidModeTwoMode(mode) THEN { Outcome(w, "invalid") }
  ELSE IF w.state.animating THEN { Outcome(w, "rejected") }
  ELSE IF mode = w.state.mode THEN { Outcome(w, "same") }
  ELSE
    LET w1 == countryPoolTwoMode(
                [enterMode(w, mode) EXCEPT !.state.mode = mode,
                                           !.cachedPool = NoCache,
                                           !.state.streak = 0,
                                           !.state.animating = FALSE])
    IN  UNION { { Outcome(r, "switched")
                  : r \in advanceTwoMode(
                            setInputLocked([w1 EXCEPT !.state.remaining = q,
                                                      !.state.current = NULL],
                                           FALSE)) }
                : q \in shuffle(w1.cachedPool.pool) }

\* The completion callback clears animating and calls setMode('hard').
timerTwoMode(w, callback) ==
  IF callback.kind = "completion"
  THEN { Outcome(r, "completion")
         : r \in setModeTwoMode([w EXCEPT !.state.animating = FALSE], "hard") }
  ELSE { Outcome(r, "advance") : r \in SettleTwoMode(w) }

loadedTwoMode(w, list) ==
  LET w1 == countryPoolTwoMode(hideLoading([w EXCEPT !.state.countries = list]))
  IN  UNION { { Outcome(r, "loaded")
                : r \in advanceTwoMode([w1 EXCEPT !.state.remaining = q]) }
              : q \in shuffle(w1.cachedPool.pool) }

InitialStateTwoMode ==
  [ countries |-> <<>>, remaining |-> <<>>, current |-> NULL, streak |-> 0,
    animating |-> FALSE, mode |-> "easy" ]

InitTwoMode ==
  /\ game = "twoMode"
  /\ phase = "loading"
  /\ state = InitialStateTwoMode
  /\ cachedPool = NoCache
  /\ allWords = [nouns |-> <<>>, verbs |-> <<>>]
  /\ localStorage = EmptyStorage
  /\ timers = <<>>
  /\ inputLocked = TRUE
  /\ loadError = "none"
  /\ shown = NoShown
  /\ repeated = "no"
  /\ mastered = {}
  /\ lastEvent = [kind |-> "init", outcome |-> "none", threw |-> FALSE,
                  adv |-> "none", dropped |-> 0]

LoadTwoMode ==
  /\ game = "twoMode"
  /\ phase = "loading"
  /\ \E o \in CountryFetches :
       /\ ~loadCountries(o).rejected
       /\ \E w \in loadedTwoMode(World, loadCountries(o).value) :
            /\ Commit("load", IF w.thrown THEN showLoadError(w, "exception") ELSE w)
            /\ phase' = IF w.thrown THEN "crashed" ELSE "ready"
  /\ UNCHANGED << game, allWords >>

HandleGuessTwoMode ==
  /\ game = "twoMode"
  /\ phase \in {"ready", "crashed"}
  /\ \E raw \in RawInputs :
       LET w == handleGuessTwoMode(World, raw)
       IN  /\ w.outcome \in {"correct", "milestone", "completion"}
             => state.streak < StreakCap(state)
           /\ Commit("guess", w)
  /\ UNCHANGED << game, phase, allWords >>

SetModeTwoMode ==
  /\ game = "twoMode"
  /\ \E mode \in ModeInputs : \E w \in setModeTwoMode(World, mode) :
       Commit("setMode", w)
  /\ UNCHANGED << game, phase, allWords >>

TimerTwoMode ==
  /\ game = "twoMode"
  /\ \E i \in 1..Len(timers) :
       \E w \in timerTwoMode([World EXCEPT !.timers = RemoveAt(timers, i)], timers[i]) :
         Commit("timer", w)
  /\ UNCHANGED << game, phase, allWords >>

NextTwoMode ==
  \/ LoadTwoMode
  \/ LoadFail
  \/ Retry
  \/ HandleGuessTwoMode
  \/ SetModeTwoMode
  \/ TimerTwoMode

SpecTwoMode == InitTwoMode /\ [][NextTwoMode]_vars

Init == InitEndless \/ InitLinear \/ InitCategory \/ InitTwoMode

Next ==
  \/ LoadEndless
  \/ LoadLinear
  \/ LoadCategory
  \/ LoadTwoMode
  \/ LoadFail
  \/ Retry
  \/ HandleGuessEndless
  \/ HandleGuessLinear
  \/ HandleGuessCategory
  \/ HandleGuessTwoMode
  \/ SetModeEndless
  \/ SetModeLinear
  \/ SetModeTwoMode
  \/ SwitchCategory
  \/ TimerEndless
  \/ TimerLinear
  \/ TimerCategory
  \/ TimerTwoMode

Spec == Init /\ [][Next]_vars

-----------------------------------------------------------------------------
(* Properties *)

Accepted == {"skip", "wrong", "correct", "milestone", "completion"}

\* C1: in the endless/practice session, a handleGuess or setMode call made
\* while state.animating is true changes nothing: the state object, the stored
\* high score and the pending timers are as before.
C1_AnimatingRejects ==
  [][ ( /\ game = "endless"
        /\ state.animating
        /\ lastEvent'.kind \in {"guess", "setMode"} )
      => ( /\ state' = state
           /\ localStorage' = localStorage
           /\ timers' = timers
           /\ lastEvent'.outcome \in {"rejected", "invalid"} ) ]_vars

C1_Witness ==
  /\ game = "endless"
  /\ state.animating
  /\ Len(timers) = 1
  /\ lastEvent.kind = "guess"
  /\ lastEvent.outcome = "rejected"

\* C2: in the endless/practice and category sessions at most one setTimeout
\* callback is pending at any time, and state.animating is true while one is.
C2_OneContinuation ==
  game \in {"endless", "category"} =>
    /\ Len(timers) <= 1
    /\ Len(timers) = 1 => state.animating

C2_Witness ==
  /\ game = "category"
  /\ Len(timers) = 1
  /\ state.animating
  /\ lastEvent.kind = "switch"
  /\ lastEvent.outcome = "rejected"

AcceptedGuess == lastEvent.kind = "guess" /\ lastEvent.outcome \in Accepted

Showing == ~state.animating /\ ~inputLocked /\ Truthy(state.current)

\* C3: in the endless/practice session, when every scheduled timer fires, an
\* accepted guess is eventually followed by the showing state: animating
\* false, input unlocked, current an item.
C3_ReturnsToShowing ==
  (game = "endless" /\ AcceptedGuess) ~> Showing

\* C5: in endless mode with a non-empty country list, an advance() either
\* reports the no-items error without drawing or leaves state.current an item
\* of the list whose tier is the active tier of the current streak.
C5_DrawsFromActiveTier ==
  ( /\ game = "endless"
    /\ state.mode = "endless"
    /\ Len(state.countries) >= 1
    /\ lastEvent.adv # "none" )
  => \/ lastEvent.adv = "noItems"
     \/ /\ lastEvent.adv = "drew"
        /\ \E i \in 1..Len(state.countries) : state.countries[i] = state.current
        /\ state.current.tier = getActiveTier("endless", state.streak)

InList(list, c) == \E i \in 1..Len(list) : list[i] = c

AllOf(seq, P(_)) == \A i \in 1..Len(seq) : P(seq[i])

ShownPoolSize ==
  IF game = "category" THEN Len(allWords[shown.mode])
  ELSE IF game = "linear" THEN Len(getCountryPool(state.countries, shown.mode))
  ELSE IF shown.mode = "endless"
  THEN Len(SelectSeq(state.countries, LAMBDA c : c.tier = shown.tier))
  ELSE Len(state.countries)

\* C6: with a pool of more than one item, an item shown by advance() never
\* has the id of the item shown immediately before it while the mode/category
\* and tier stay the same, also when the draw refills the queue.
C6_NoImmediateRepeat ==
  (game \in {"endless", "linear", "category"} /\ repeated # "no")
  => ShownPoolSize <= 1

\* C7: in the endless/practice and linear-tier sessions state.remaining holds
\* no item twice and does not hold state.current.
C7_QueueDistinct ==
  game \in {"endless", "linear"} =>
    /\ \A i, j \in 1..Len(state.remaining) :
         state.remaining[i].id = state.remaining[j].id => i = j
    /\ \A i \in 1..Len(state.remaining) :
         state.remaining[i].id # state.current.id

C7_Witness ==
  /\ game = "linear"
  /\ Len(state.remaining) >= 2
  /\ Truthy(state.current)
  /\ state.streak >= 1

\* C8: in the endless/practice and category sessions streak is never negative
\* and an event changes it in one of three ways: an accepted matching guess
\* adds 1; an accepted non-matching or blank guess, an accepted mode/category
\* switch and a completion restart set it to 0; any other event leaves it.
C8_StreakSteps ==
  /\ state.streak >= 0
  /\ [][ (game = "endless" \/ game = "category") =>
       ( /\ state'.streak >= 0
         /\ IF lastEvent'.kind = "guess"
                /\ lastEvent'.outcome \in {"correct", "milestone", "completion"}
            THEN state'.streak = state.streak + 1
            ELSE IF \/ /\ lastEvent'.kind = "guess"
                       /\ lastEvent'.outcome \in {"skip", "wrong"}
                    \/ /\ lastEvent'.kind \in {"setMode", "switch"}
                       /\ lastEvent'.outcome = "switched"
                    \/ /\ lastEvent'.kind = "timer"
                       /\ lastEvent'.outcome = "completion"
            THEN state'.streak = 0
            ELSE state'.streak = state.streak ) ]_vars

C8_Witness ==
  /\ game = "category"
  /\ lastEvent.kind = "guess"
  /\ lastEvent.outcome = "correct"
  /\ state.streak = 3

\* C9: in the linear-tier session an accepted setMode to a mode whose pool is
\* empty reports the no-countries error, draws nothing and leaves streak,
\* remaining and current as they were.
C9_EmptyPoolLeavesState ==
  [][ ( /\ game = "linear"
        /\ lastEvent'.kind = "setMode"
        /\ lastEvent'.outcome = "switched"
        /\ lastEvent'.adv = "noItems" )
      => ( /\ loadError' = "noItems"
           /\ state'.streak = state.streak
           /\ state'.remaining = state.remaining
           /\ state'.current = state.current ) ]_vars

\* C10: in the linear-tier session, once the empty-pool error has been
\* reported, animating always returns to false when every timer fires.
C10_StaysInteractive ==
  (game = "linear" /\ loadError = "noItems") ~> ~state.animating

-----------------------------------------------------------------------------
(* Pure functions, called on their own *)

\* The session variables a call of a pure function does not touch.
NoSession ==
  /\ phase = "ready"
  /\ cachedPool = NoCache
  /\ allWords = [nouns |-> <<>>, verbs |-> <<>>]
  /\ timers = <<>>
  /\ inputLocked = FALSE
  /\ loadError = "none"
  /\ shown = NoShown
  /\ repeated = "no"
  /\ mastered = {}
  /\ lastEvent = [kind |-> "init", outcome |-> "none", threw |-> FALSE,
                  adv |-> "none", dropped |-> 0]

Called(outcome) ==
  [kind |-> "call", outcome |-> outcome, threw |-> FALSE, adv |-> "none",
   dropped |-> 0]

MaxNewStreak == 11
MaxPoolSize == 11

InitClassify ==
  /\ game = "classifyCorrectGuess"
  /\ state \in [newStreak : 1..MaxNewStreak, poolSize : 1..MaxPoolSize,
                result : {"none"}]
  /\ localStorage = EmptyStorage
  /\ NoSession

Classify ==
  /\ game = "classifyCorrectGuess"
  /\ state.result = "none"
  /\ state' = [state EXCEPT
                 !.result = classifyCorrectGuess(state.newStreak, state.poolSize)]
  /\ lastEvent' = Called(state'.result)
  /\ UNCHANGED << game, phase, cachedPool, allWords, localStorage, timers,
                  inputLocked, loadError, shown, repeated, mastered >>

SpecClassify == InitClassify /\ [][Classify]_vars

\* C11: classifyCorrectGuess(newStreak, poolSize) is 'completion' exactly when
\* newStreak = poolSize (also on a multiple of 5), otherwise 'milestone'
\* exactly when newStreak is a multiple of 5, otherwise 'correct'.
C11_Classification ==
  (game = "classifyCorrectGuess" /\ state.result # "none") =>
    LET n == state.newStreak
        p == state.poolSize
    IN  /\ state.result = "completion" <=> n = p
        /\ state.result = "milestone" <=> (n # p /\ n % 5 = 0)
        /\ state.result = "correct" <=> (n # p /\ n % 5 # 0)

C11_Witness ==
  /\ game = "classifyCorrectGuess"
  /\ state.newStreak = 5
  /\ state.poolSize = 5
  /\ state.result = "completion"

\* C12: in the linear-tier session, when an accepted correct guess is
\* classified as completion, every item of the current mode's pool has been
\* matched at least once during the current streak.
C12_CompletionMeansAllMatched ==
  ( /\ game = "linear"
    /\ lastEvent.kind = "guess"
    /\ lastEvent.outcome = "completion" )
  => AllOf(getCountryPool(state.countries, state.mode),
           LAMBDA c : c.id \in mastered)

\* C13: in endless mode of the endless/practice session, a correct guess is a
\* completion only if the item just matched is of tier expert and every
\* expert-tier item has been matched during the current streak.
C13_CompletionMeansExpertMastered ==
  ( /\ game = "endless"
    /\ lastEvent.kind = "guess"
    /\ lastEvent.outcome = "completion" )
  => /\ state.current.tier = "expert"
     /\ AllOf(SelectSeq(state.countries, LAMBDA c : c.tier = "expert"),
              LAMBDA c : c.id \in mastered)

\* The entry after `mode` in the mode order, the last entry being followed by
\* itself.
Successor(mode) ==
  IF mode = "easy" THEN "medium"
  ELSE IF mode = "medium" THEN "hard"
  ELSE "endless"

CompletionPending == \E i \in 1..Len(timers) : timers[i] = CompletionTimer

CompletionTimerFired(e) == e.kind = "timer" /\ e.outcome = "completion"

C15_CompletionRestartsInPlace ==
  [][ game = "endless" =>
      ( /\ (lastEvent'.kind = "guess" /\ lastEvent'.outcome = "completion")
             => /\ state'.streak = state.streak + 1
                /\ getHighScore(localStorage') >= state'.streak
        /\ CompletionTimerFired(lastEvent')
             => /\ state.mode = "endless"
                /\ state'.mode = "endless"
                /\ state'.streak = 0
                /\ state'.endlessTier = getActiveTier("endless", 0)
                /\ ~state'.animating
                /\ lastEvent'.adv = "drew"
                /\ Truthy(state'.current)
                /\ shown'.item = state'.current ) ]_vars

C15_Witness ==
  /\ game = "endless"
  /\ CompletionTimerFired(lastEvent)
  /\ state.streak = 0
  /\ state.endlessTier = "easy"
  /\ shown.item = state.current
  /\ getHighScore(localStorage) > BracketHardMax

\* The stored high score the session in `s` reads: of the active category in
\* the category session, the single record otherwise.
StoredHighScore(ls, s) ==
  IF game = "category" THEN getHighScoreOf(ls, s.category) ELSE getHighScore(ls)

ScoredSession == game = "category" \/ (game = "endless" /\ state.mode = "endless")

\* C16: in the category session and in endless mode of the endless/practice
\* session, an accepted non-blank, non-matching guess at streak s > 0 leaves
\* the stored high score >= s and streak = 0.
C16_WrongAnswerPersistsStreak ==
  [][ ( /\ ScoredSession
        /\ lastEvent'.kind = "guess"
        /\ lastEvent'.outcome = "wrong"
        /\ state.streak > 0 )
      => ( /\ StoredHighScore(localStorage', state) >= state.streak
           /\ state'.streak = 0 ) ]_vars

C16_Witness ==
  /\ game = "endless"
  /\ lastEvent.kind = "guess"
  /\ lastEvent.outcome = "wrong"
  /\ state.streak = 0
  /\ getHighScore(localStorage) = BracketHardMax

\* C17: a run with streak s >= 1 that ends by an accepted blank or
\* whitespace-only guess leaves the stored high score (of the active category;
\* in endless mode) >= s.
C17_SkipPersistsStreak ==
  [][ ( /\ ScoredSession
        /\ lastEvent'.kind = "guess"
        /\ lastEvent'.outcome = "skip"
        /\ state.streak >= 1 )
      => StoredHighScore(localStorage', state) >= state.streak ]_vars

Switched(e) == e.kind = "switch" /\ e.outcome = "switched"

\* C18 (as stated): in the category session an accepted switchCategory(c) with outgoing
\* streak s leaves the stored high score of the old category >= s,
\* category = c, streak = 0, current an item of c's word list and remaining a
\* duplicate-free part of that list without current.
C18_SwitchPersistsAndDrawsAlways ==
  [][ (game = "category" /\ Switched(lastEvent'))
      => ( /\ getHighScoreOf(localStorage', state.category) >= state.streak
           /\ state'.category # state.category
           /\ state'.streak = 0
           /\ InList(allWords[state'.category], state'.current)
           /\ AllOf(state'.remaining,
                    LAMBDA x : /\ InList(allWords[state'.category], x)
                               /\ x.id # state'.current.id)
           /\ \A i, j \in 1..Len(state'.remaining) :
                state'.remaining[i].id = state'.remaining[j].id => i = j ) ]_vars

\* C18 (amended): as stated when c's word list is not empty; when it is empty
\* (a switch made before the words are loaded) the no-words error is
\* reported, current is null and remaining is empty.
C18_SwitchPersistsAndDraws ==
  [][ (game = "category" /\ Switched(lastEvent'))
      => ( /\ getHighScoreOf(localStorage', state.category) >= state.streak
           /\ state'.category # state.category
           /\ state'.streak = 0
           /\ IF allWords[state'.category] = <<>>
              THEN /\ state'.current = NULL
                   /\ state'.remaining = <<>>
                   /\ loadError' = "noItems"
              ELSE /\ InList(allWords[state'.category], state'.current)
                   /\ AllOf(state'.remaining,
                            LAMBDA x : /\ InList(allWords[state'.category], x)
                                       /\ x.id # state'.current.id)
                   /\ \A i, j \in 1..Len(state'.remaining) :
                        state'.remaining[i].id = state'.remaining[j].id => i = j ) ]_vars

C18_Witness ==
  /\ game = "category"
  /\ Switched(lastEvent)
  /\ state.category = "verbs"
  /\ Truthy(state.current)
  /\ Len(state.remaining) = 1
  /\ getHighScoreOf(localStorage, "nouns") > EarlierNounRecord

\* What setMode(mode) would do in the present state, and whether the session
\* recognizes `mode`.
SetModeResults(mode) ==
  IF game = "endless" THEN setModeEndless(World, mode)
  ELSE IF game = "linear" THEN setModeLinear(World, mode)
  ELSE IF game = "twoMode" THEN setModeTwoMode(World, mode)
  ELSE {}

Recognized(mode) ==
  IF game = "endless" THEN isValidModeEndless(mode)
  ELSE IF game = "linear" THEN isValidMode(mode)
  ELSE isValidModeTwoMode(mode)

\* C19: setMode(mode) with an unrecognized mode, or with the current mode,
\* leaves mode, streak, current, remaining, animating and the pool cache as
\* they are (endless/practice, linear-tier and two-mode sessions).
C19_SetModeNoOp ==
  \A mode \in ModeInputs :
    (game # "category" /\ (~Recognized(mode) \/ mode = state.mode))
    => \A w \in SetModeResults(mode) :
         /\ w.state = state
         /\ w.cachedPool = cachedPool
         /\ w.timers = timers
         /\ ~w.thrown

C19_Witness ==
  /\ game = "twoMode"
  /\ lastEvent.kind = "setMode"
  /\ lastEvent.outcome = "invalid"
  /\ state.streak >= 1
  /\ Truthy(state.current)

-----------------------------------------------------------------------------
(* storage.js, called on its own *)

MaxScore == 10

\* The three records: the single-key storage.js and the two categories.
ScoreKeys == {HIGH_SCORE_KEY, NOUN_HIGH_SCORE_KEY, VERB_HIGH_SCORE_KEY}

\* The keys one storage.js writes: its single key, or scoreKey(category).
KeysOf(form) ==
  IF form = "single" THEN {HIGH_SCORE_KEY}
  ELSE {scoreKey("nouns"), scoreKey("verbs")}

Max(a, b) == IF a > b THEN a ELSE b

\* Stored strings parseInt cannot read a number from.
CorruptValues == { <<>>, <<"a">>, <<"N", "a", "N">> }

\* What the keys may hold before the first call: nothing, or strings that
\* were not written by updateHighScore.
StoredAtStart(form) ==
  IF form = "single"
  THEN { EmptyStorage, HIGH_SCORE_KEY :> <<>>, HIGH_SCORE_KEY :> <<"a">> }
  ELSE { EmptyStorage,
         NOUN_HIGH_SCORE_KEY :> <<"a">>,
         (NOUN_HIGH_SCORE_KEY :> <<>>) @@ (VERB_HIGH_SCORE_KEY :> <<"N", "a", "N">>) }

\* The category arguments tried; "adjectives" is not a category.
CategoryArgs == {"nouns", "verbs", "adjectives"}

ArgsOf(form) == IF form = "single" THEN {"none"} ELSE CategoryArgs

InitStorage ==
  /\ game = "storage"
  /\ \E form \in {"single", "category"} :
       /\ localStorage \in StoredAtStart(form)
       /\ state = [form |-> form, arg |-> "none", key |-> "none", streak |-> 0,
                   before |-> 0, returned |-> FALSE,
                   best |-> [k \in ScoreKeys |-> 0]]
  /\ NoSession

\* getHighScore() / getHighScore(category); the value is kept in state.before.
GetHighScore ==
  /\ game = "storage"
  /\ \E arg \in ArgsOf(state.form) :
       LET r == IF state.form = "single"
                THEN [threw |-> FALSE, value |-> getHighScore(localStorage)]
                ELSE getHighScoreCategory(localStorage, arg)
           key == IF state.form = "single" THEN HIGH_SCORE_KEY ELSE scoreKey(arg)
       IN  /\ state' = IF r.threw THEN [state EXCEPT !.arg = arg]
                       ELSE [state EXCEPT !.arg = arg, !.key = key, !.streak = 0,
                                          !.before = r.value, !.returned = FALSE]
           /\ lastEvent' = [Called("getHighScore") EXCEPT !.threw = r.threw]
  /\ UNCHANGED << game, phase, cachedPool, allWords, localStorage, timers,
                  inputLocked, loadError, shown, repeated, mastered >>

\* updateHighScore(streak) / updateHighScore(category, streak); state.best
\* keeps the largest streak passed so far for each key.
UpdateHighScore ==
  /\ game = "storage"
  /\ \E arg \in ArgsOf(state.form) : \E streak \in 0..MaxScore :
       LET key == IF state.form = "single" THEN HIGH_SCORE_KEY ELSE scoreKey(arg)
           r == IF state.form = "single"
                THEN [threw |-> FALSE,
                      returned |-> updateHighScoreReturns(localStorage, key, streak),
                      ls |-> updateHighScore(localStorage, streak)]
                ELSE updateHighScoreCategory(localStorage, arg, streak)
       IN  /\ localStorage' = r.ls
           /\ state' = IF r.threw THEN [state EXCEPT !.arg = arg]
                       ELSE [form |-> state.form, arg |-> arg, key |-> key,
                             streak |-> streak,
                             before |-> getHighScoreAt(localStorage, key),
                             returned |-> r.returned,
                             best |-> [state.best EXCEPT ![key] = Max(@, streak)]]
           /\ lastEvent' = [Called("updateHighScore") EXCEPT !.threw = r.threw]
  /\ UNCHANGED << game, phase, cachedPool, allWords, timers, inputLocked,
                  loadError, shown, repeated, mastered >>

NextStorage == GetHighScore \/ UpdateHighScore

SpecStorage == InitStorage /\ [][NextStorage]_vars

\* C20: updateHighScore returns true and stores streak exactly when streak is
\* greater than the stored high score, otherwise returns false and leaves
\* storage unchanged; so the high score never decreases and is the largest of
\* 0 and the streaks passed so far.
C20_HighScoreIsMaximum ==
  /\ game = "storage" => \A k \in ScoreKeys : getHighScoreAt(localStorage, k) = 0
  /\ [][ game = "storage" =>
         ( /\ state'.returned <=> state'.streak > state'.before
           /\ state'.returned
                => getHighScoreAt(localStorage', state'.key) = state'.streak
           /\ ~state'.returned => localStorage' = localStorage
           /\ \A k \in ScoreKeys :
                /\ getHighScoreAt(localStorage', k) >= getHighScoreAt(localStorage, k)
                /\ getHighScoreAt(localStorage', k) = state'.best[k] ) ]_vars

C20_Witness ==
  /\ game = "storage"
  /\ state.key = NOUN_HIGH_SCORE_KEY
  /\ state.returned
  /\ state.streak = 10
  /\ state.before = 9
  /\ getHighScoreAt(localStorage, VERB_HIGH_SCORE_KEY) = 3

\* The key the last call was about, for a known category.
CalledKey ==
  IF state.form = "single" THEN HIGH_SCORE_KEY
  ELSE IF state.arg = "nouns" THEN NOUN_HIGH_SCORE_KEY
  ELSE VERB_HIGH_SCORE_KEY

\* C21: getHighScore (single key, or a known category) returns 0 without
\* throwing when nothing is stored under the key or the stored string is not
\* a number, and an updateHighScore with streak >= 1 then succeeds.
C21_MissingOrCorruptIsZero ==
  [][ ( /\ game = "storage"
        /\ state'.arg # "adjectives"
        /\ \/ CalledKey' \notin DOMAIN localStorage
           \/ localStorage[CalledKey'] \in CorruptValues )
      => ( /\ ~lastEvent'.threw
           /\ state'.before = 0
           /\ (lastEvent'.outcome = "updateHighScore" /\ state'.streak >= 1)
                => /\ state'.returned
                   /\ getHighScoreAt(localStorage', CalledKey') = state'.streak ) ]_vars

C21_Witness ==
  /\ game = "storage"
  /\ lastEvent.outcome = "updateHighScore"
  /\ state.key = NOUN_HIGH_SCORE_KEY
  /\ state.returned
  /\ state.before = 0
  /\ state.streak = 1
  /\ VERB_HIGH_SCORE_KEY \in DOMAIN localStorage
  /\ localStorage[VERB_HIGH_SCORE_KEY] \in CorruptValues

\* C22: getHighScore and updateHighScore with a category other than nouns or
\* verbs throw and leave every stored high score unchanged.
C22_UnknownCategoryThrows ==
  [][ (game = "storage" /\ state'.arg = "adjectives")
      => ( /\ lastEvent'.threw
           /\ localStorage' = localStorage ) ]_vars

C22_Witness ==
  /\ game = "storage"
  /\ state.arg = "adjectives"
  /\ lastEvent.outcome = "updateHighScore"
  /\ lastEvent.threw
  /\ getHighScoreAt(localStorage, NOUN_HIGH_SCORE_KEY) = 2

-----------------------------------------------------------------------------
(* The leaderboard storage.js (scores kept as JSON under one key) *)

SCORES_KEY == "outlinr_scores"
MAX_SCORES == 100
MODE_RANK == [easy |-> 0, medium |-> 1, hard |-> 2, endless |-> 3]

\* MODE_RANK[mode] ?? -1
RankOf(mode) == IF mode \in DOMAIN MODE_RANK THEN MODE_RANK[mode] ELSE -1

compareScoresByStreak(a, b) == b.streak - a.streak

\* _compareScores(a, b): negative when a goes first.
compareScores(a, b) ==
  LET modeDiff == RankOf(b.mode) - RankOf(a.mode)
  IN  IF modeDiff # 0 THEN modeDiff ELSE b.streak - a.streak

\* Array.prototype.sort(_compareScores) is stable: an element moves ahead
\* only of the elements the comparator puts strictly behind it, so records
\* that tie keep the order they had.
SortScores(s) == SortSeq(s, LAMBDA a, b : compareScores(a, b) < 0)

\* The text kept under SCORES_KEY, by what JSON.parse makes of it: "empty" is
\* the empty string, "garbage" is not JSON, "null" and "object" are JSON but
\* no array, "array" is the JSON of a list of score records.
Text(kind, items) == [kind |-> kind, items |-> items]

JSONstringify(scores) == Text("array", scores)

\* JSON.parse(raw): throws on text that is not JSON.
JSONparse(raw) ==
  IF raw.kind = "garbage" THEN [threw |-> TRUE, isArray |-> FALSE, items |-> <<>>]
  ELSE [threw |-> FALSE, isArray |-> raw.kind = "array", items |-> raw.items]

loadScoresKeepingJunk(ls) ==
  IF SCORES_KEY \notin DOMAIN ls THEN <<>>
  ELSE IF ls[SCORES_KEY].kind = "array" THEN ls[SCORES_KEY].items
  ELSE << [name |-> "", streak |-> 0, mode |-> "", timestamp |-> "now"] >>

\* _loadScores()
loadScores(ls) ==
  IF SCORES_KEY \notin DOMAIN ls \/ ls[SCORES_KEY].kind = "empty" THEN <<>>
  ELSE LET parsed == JSONparse(ls[SCORES_KEY])
       IN  IF parsed.threw THEN <<>>
           ELSE IF parsed.isArray THEN parsed.items ELSE <<>>

addScoreUnchecked(ls, score) ==
  LET pushed == Append(loadScores(ls),
                       [name |-> score.name, streak |-> score.streak,
                        mode |-> score.mode, timestamp |-> "now"])
      sorted == SortScores(pushed)
  IN  setItem(ls, SCORES_KEY,
              JSONstringify(IF Len(sorted) > MAX_SCORES
                            THEN SubSeq(sorted, 1, MAX_SCORES) ELSE sorted))

addScoreUntruncated(ls, score) ==
  IF score.streak < 1 THEN ls
  ELSE setItem(ls, SCORES_KEY,
               JSONstringify(SortScores(
                 Append(loadScores(ls),
                        [name |-> score.name, streak |-> score.streak,
                         mode |-> score.mode, timestamp |-> "now"]))))

\* addScore({ name, streak, mode }); Date.now() is not modelled, nothing
\* reads the timestamp.
addScore(ls, score) ==
  IF score.streak < 1 THEN ls
  ELSE
    LET pushed == Append(loadScores(ls),
                         [name |-> score.name, streak |-> score.streak,
                          mode |-> score.mode, timestamp |-> "now"])
        sorted == SortScores(pushed)
    IN  setItem(ls, SCORES_KEY,
                JSONstringify(IF Len(sorted) > MAX_SCORES
                              THEN SubSeq(sorted, 1, MAX_SCORES) ELSE sorted))

\* getLeaderboard()
getLeaderboard(ls) ==
  SortScores(SelectSeq(loadScores(ls), LAMBDA s : s.mode = "endless"))

MaxAdds == 3

\* The scores passed to addScore: "zen" is not a mode of MODE_RANK.
ScoreInputs ==
  [name : {"p"}, streak : {0, 5, 50}, mode : {"endless", "hard", "medium", "easy", "zen"}]

Stored(name, streak, mode) ==
  [name |-> name, streak |-> streak, mode |-> mode, timestamp |-> "now"]

\* A store one record short of MAX_SCORES, as addScore leaves it.
NearlyFull ==
  [i \in 1..(MAX_SCORES - 1) |->
     IF i <= 60 THEN Stored("q", 50, "endless") ELSE Stored("q", 50, "hard")]

ScoreStores ==
  { EmptyStorage } \cup
  { SCORES_KEY :> t
    : t \in { Text("empty", <<>>), Text("garbage", <<>>), Text("null", <<>>),
              Text("object", <<>>), Text("array", <<>>),
              Text("array", NearlyFull) } }

\* What is under SCORES_KEY: nothing, or a text of one of the kinds.
StoredKind(ls) ==
  IF SCORES_KEY \in DOMAIN ls THEN ls[SCORES_KEY].kind ELSE "missing"

NoScore == [name |-> "", streak |-> 0, mode |-> ""]

InitLeaderboard ==
  /\ game = "leaderboard"
  /\ localStorage \in ScoreStores
  /\ state = [start |-> StoredKind(localStorage), adds |-> 0,
              last |-> NoScore, board |-> <<>>]
  /\ NoSession

AddScore ==
  /\ game = "leaderboard"
  /\ state.adds < MaxAdds
  /\ \E score \in ScoreInputs :
       /\ localStorage' = addScore(localStorage, score)
       /\ state' = [state EXCEPT !.adds = state.adds + 1, !.last = score,
                                 !.board = <<>>]
  /\ lastEvent' = Called("addScore")
  /\ UNCHANGED << game, phase, cachedPool, allWords, timers, inputLocked,
                  loadError, shown, repeated, mastered >>

GetLeaderboard ==
  /\ game = "leaderboard"
  /\ lastEvent.outcome # "getLeaderboard"
  /\ state' = [state EXCEPT !.board = getLeaderboard(localStorage)]
  /\ lastEvent' = Called("getLeaderboard")
  /\ UNCHANGED << game, phase, cachedPool, allWords, localStorage, timers,
                  inputLocked, loadError, shown, repeated, mastered >>

NextLeaderboard == AddScore \/ GetLeaderboard

SpecLeaderboard == InitLeaderboard /\ [][NextLeaderboard]_vars

\* The list stored under SCORES_KEY, as the code reads it back.
StoredScores == loadScores(localStorage)

\* C23: addScore with a streak below 1 leaves what is stored under the
\* scores key exactly as it was (content and length), and every record of
\* the stored list has a streak of at least 1.
C23_LowStreakIsNoOp ==
  /\ [][(game = "leaderboard" /\ lastEvent'.outcome = "addScore"
           /\ state'.last.streak < 1)
        => localStorage' = localStorage]_vars
  /\ [](game = "leaderboard"
        => \A i \in 1..Len(StoredScores) : StoredScores[i].streak >= 1)

\* addScore was just called with streak 0 on a store that holds records the
\* earlier calls put there.
C23_Witness ==
  /\ game = "leaderboard"
  /\ lastEvent.outcome = "addScore"
  /\ state.last.streak < 1
  /\ state.adds >= 2
  /\ Len(StoredScores) = 1

\* The rank the leaderboard gives a mode: endless above hard above medium
\* above easy, any other mode below them all.
TierRank(mode) ==
  CASE mode = "endless" -> 3
    [] mode = "hard" -> 2
    [] mode = "medium" -> 1
    [] mode = "easy" -> 0
    [] OTHER -> -1

RankedBefore(a, b) ==
  \/ TierRank(a.mode) > TierRank(b.mode)
  \/ /\ TierRank(a.mode) = TierRank(b.mode)
     /\ a.streak >= b.streak

\* C24: the stored list is ordered by descending mode rank (unrecognised
\* modes last) and, within one rank, by descending streak; a lower streak in
\* a higher mode comes before a higher streak in a lower mode.
C24_StoredListIsRanked ==
  game = "leaderboard"
    => \A i, j \in 1..Len(StoredScores) :
         i < j => RankedBefore(StoredScores[i], StoredScores[j])

\* Three addScore calls on an empty list left endless:5 ahead of hard:50
\* ahead of a record of an unrecognised mode.
C24_Witness ==
  /\ game = "leaderboard"
  /\ lastEvent.outcome = "addScore"
  /\ state.last = [name |-> "p", streak |-> 5, mode |-> "endless"]
  /\ StoredScores = << Stored("p", 5, "endless"), Stored("p", 50, "hard"),
                       Stored("p", 50, "zen") >>

\* How many times record r occurs in list s.
Count(s, r) == Cardinality({ i \in 1..Len(s) : s[i] = r })

\* C25: the stored list never holds more than MAX_SCORES records; an
\* addScore that stores keeps Min(n + 1, MAX_SCORES) of the n earlier records
\* and the new one, and every record it drops (the new one included) is
\* ranked no higher than any record it keeps.
C25_CapKeepsBest ==
  /\ [](game = "leaderboard" => Len(StoredScores) <= MAX_SCORES)
  /\ [][(game = "leaderboard" /\ lastEvent'.outcome = "addScore"
           /\ state'.last.streak >= 1)
        => LET all == Append(StoredScores,
                             Stored(state'.last.name, state'.last.streak,
                                    state'.last.mode))
               kept == loadScores(localStorage')
           IN  /\ Len(kept) = Min(Len(all), MAX_SCORES)
               /\ \A d \in { all[i] : i \in 1..Len(all) } :
                    /\ Count(kept, d) <= Count(all, d)
                    /\ Count(kept, d) < Count(all, d)
                         => \A r \in { kept[k] : k \in 1..Len(kept) } :
                              RankedBefore(r, d)]_vars

\* On the 99-record store: the first call filled the list, the second pushed
\* a hard record off its end, the third added a record that was itself
\* dropped.
C25_Witness ==
  /\ game = "leaderboard"
  /\ lastEvent.outcome = "addScore"
  /\ state.adds = 3
  /\ state.last = [name |-> "p", streak |-> 5, mode |-> "zen"]
  /\ Len(StoredScores) = MAX_SCORES
  /\ Count(StoredScores, Stored("p", 5, "zen")) = 0
  /\ Count(StoredScores, Stored("q", 50, "hard")) = 38

\* C26: when the value under the scores key is missing, not valid JSON, or
\* JSON that is not an array, _loadScores and getLeaderboard return an empty
\* list without throwing, and an addScore with streak >= 1 then stores a
\* list that holds exactly the new record.
C26_CorruptStoreIsEmpty ==
  /\ []((game = "leaderboard" /\ StoredKind(localStorage) # "array")
        => loadScores(localStorage) = <<>>)
  /\ [][(game = "leaderboard" /\ StoredKind(localStorage) # "array")
        => /\ ~lastEvent'.threw
           /\ lastEvent'.outcome = "getLeaderboard" => state'.board = <<>>
           /\ (lastEvent'.outcome = "addScore" /\ state'.last.streak >= 1)
                => /\ StoredKind(localStorage') = "array"
                   /\ localStorage'[SCORES_KEY].items =
                        << Stored(state'.last.name, state'.last.streak,
                                  state'.last.mode) >>]_vars

\* The store held text that is not JSON, getLeaderboard was called on it and
\* then addScore stored the first record.
C26_Witness ==
  /\ game = "leaderboard"
  /\ state.start = "garbage"
  /\ state.adds = 1
  /\ lastEvent.outcome = "addScore"
  /\ StoredScores = << Stored("p", 5, "hard") >>

\* C27: getLeaderboard() returns every stored score, whatever its mode, none
\* left out and none added, in rank order.
C27_LeaderboardReturnsAll ==
  [][(game = "leaderboard" /\ lastEvent'.outcome = "getLeaderboard")
     => /\ Len(state'.board) = Len(StoredScores)
        /\ \A r \in { StoredScores[i] : i \in 1..Len(StoredScores) } :
             Count(state'.board, r) = Count(StoredScores, r)
        /\ \A i, j \in 1..Len(state'.board) :
             i < j => RankedBefore(state'.board[i], state'.board[j])]_vars

-----------------------------------------------------------------------------
(* The weighted draw of gameState.js. Math.random() is an input, in
   hundredths; weights are in hundredths too, so `rand` is in 1/10000. *)

\* byTier[tier]
byTier(countries, exclude, tier) ==
  SelectSeq(countries,
            LAMBDA c : c.tier = tier /\ (~Truthy(exclude) \/ c.id # exclude.id))

\* effective[tier]
effective(countries, streak, exclude, tier) ==
  IF Len(byTier(countries, exclude, tier)) > 0
  THEN getEndlessWeights(streak)[tier] ELSE 0

\* pool[Math.floor(Math.random() * pool.length)]
RandomOf(pool, r) == pool[((r * Len(pool)) \div 100) + 1]

\* The loop of the weighted tier pick: the tier it returns from, "none" when
\* it runs off the end.
RECURSIVE PickTier(_, _, _, _, _)
PickTier(countries, streak, exclude, i, rand) ==
  IF i > Len(ENDLESS_TIERS) THEN "none"
  ELSE LET eff == effective(countries, streak, exclude, ENDLESS_TIERS[i])
       IN  IF eff = 0
           THEN PickTier(countries, streak, exclude, i + 1, rand)
           ELSE IF rand - eff * 100 <= 0 THEN ENDLESS_TIERS[i]
           ELSE PickTier(countries, streak, exclude, i + 1, rand - eff * 100)

\* The last tier of ENDLESS_TIERS that byTier leaves non-empty, "none" if
\* there is none.
LastNonEmptyTier(countries, exclude) ==
  LET full == { i \in 1..Len(ENDLESS_TIERS) :
                  Len(byTier(countries, exclude, ENDLESS_TIERS[i])) > 0 }
  IN  IF full = {} THEN "none"
      ELSE ENDLESS_TIERS[CHOOSE i \in full : \A j \in full : j <= i]

drawEndlessCountryNoExclude(countries, streak, exclude, r1, r2) ==
  LET tier == PickTier(countries, streak, NULL, 1, r1 * 100)
  IN  IF tier = "none" THEN RandomOf(countries, r1)
      ELSE RandomOf(byTier(countries, NULL, tier), r2)

drawEndlessCountryUniform(countries, streak, exclude, r1, r2) ==
  LET all == SelectSeq(countries,
                       LAMBDA c : ~Truthy(exclude) \/ c.id # exclude.id)
  IN  IF Len(all) = 0 THEN countries[1] ELSE RandomOf(all, r1)

\* drawEndlessCountry(countries, streak, exclude); r1 and r2 are the first
\* and the second Math.random() of the call.
drawEndlessCountry(countries, streak, exclude, r1, r2) ==
  LET totalWeight ==
        effective(countries, streak, exclude, "easy")
        + effective(countries, streak, exclude, "medium")
        + effective(countries, streak, exclude, "hard")
        + effective(countries, streak, exclude, "expert")
  IN  IF totalWeight = 0
      THEN LET all == SelectSeq(countries,
                        LAMBDA c : ~Truthy(exclude) \/ c.id # exclude.id)
           IN  IF Len(all) = 0
               THEN IF countries = <<>> THEN UNDEFINED ELSE countries[1]
               ELSE RandomOf(all, r1)
      ELSE LET tier == PickTier(countries, streak, exclude, 1, r1 * totalWeight)
               last == LastNonEmptyTier(countries, exclude)
           IN  IF tier # "none"
               THEN RandomOf(byTier(countries, exclude, tier), r2)
               ELSE IF last # "none"
               THEN RandomOf(byTier(countries, exclude, last), r2)
               ELSE UNDEFINED

MaxDrawStreak == 62

\* Math.random() is in [0, 1): enough values to reach every index of a list
\* of up to four items.
Randoms == {0, 25, 50, 75, 99}

\* Streaks at both ends of every bracket.
DrawStreaks ==
  { 0, BracketEasyMax, BracketEasyMax + 1, BracketMediumMax,
    BracketMediumMax + 1, BracketHardMax, BracketHardMax + 1 }

\* Non-empty lists with distinct ids: every tier, one tier, tiers missing.
DrawLists ==
  { <<E1, M1, H1, X1>>, <<E1, E2, M1>>, <<H1>>, <<E1, E2>>, <<X1, M1, E2>> }

Excludes == { NULL, E1, E2, M1, H1, X1 }

NoWeights == [easy |-> 0, medium |-> 0, hard |-> 0, expert |-> 0]

InitDraw ==
  /\ game = "drawEndlessCountry"
  /\ \/ state = [form |-> "weights", streak |-> 0, weights |-> NoWeights]
     \/ state \in [form : {"draw"}, countries : DrawLists,
                   streak : DrawStreaks, exclude : Excludes, drawn : {NULL}]
  /\ localStorage = EmptyStorage
  /\ NoSession

GetEndlessWeights ==
  /\ game = "drawEndlessCountry"
  /\ state.form = "weights"
  /\ \E streak \in 0..MaxDrawStreak :
       state' = [state EXCEPT !.streak = streak,
                              !.weights = getEndlessWeights(streak)]
  /\ lastEvent' = Called("getEndlessWeights")
  /\ UNCHANGED << game, phase, cachedPool, allWords, localStorage, timers,
                  inputLocked, loadError, shown, repeated, mastered >>

DrawEndlessCountry ==
  /\ game = "drawEndlessCountry"
  /\ state.form = "draw"
  /\ \E r1, r2 \in Randoms :
       state' = [state EXCEPT !.drawn =
                   drawEndlessCountry(state.countries, state.streak,
                                      state.exclude, r1, r2)]
  /\ lastEvent' = Called("drawEndlessCountry")
  /\ UNCHANGED << game, phase, cachedPool, allWords, localStorage, timers,
                  inputLocked, loadError, shown, repeated, mastered >>

NextDraw == GetEndlessWeights \/ DrawEndlessCountry

SpecDraw == InitDraw /\ [][NextDraw]_vars

\* The tier a weight map puts weight on, as its place in ENDLESS_TIERS.
Weighted(weights) == { i \in 1..Len(ENDLESS_TIERS) : weights[ENDLESS_TIERS[i]] > 0 }

OnlyOn(tier) == [t \in {"easy", "medium", "hard", "expert"} |->
                   IF t = tier THEN 100 ELSE 0]

\* C28: getEndlessWeights(streak) puts weight 1 on easy for streak 0..20, on
\* medium for 21..40, on hard for 41..60 and on expert from 61 on; the four
\* weights sum to 1, and a larger streak never selects an earlier tier.
C28_WeightsByBracket ==
  /\ []((game = "drawEndlessCountry"
           /\ lastEvent.outcome = "getEndlessWeights")
        => LET s == state.streak
               w == state.weights
           IN  /\ w.easy + w.medium + w.hard + w.expert = 100
               /\ s \in 0..20 => w = OnlyOn("easy")
               /\ s \in 21..40 => w = OnlyOn("medium")
               /\ s \in 41..60 => w = OnlyOn("hard")
               /\ s >= 61 => w = OnlyOn("expert"))
  /\ [][(game = "drawEndlessCountry"
           /\ lastEvent.outcome = "getEndlessWeights"
           /\ lastEvent'.outcome = "getEndlessWeights"
           /\ state.streak <= state'.streak)
        => \A i \in Weighted(state.weights) :
             \A j \in Weighted(state'.weights) : i <= j]_vars

\* getEndlessWeights answered for the first streak of the expert bracket.
C28_Witness ==
  /\ game = "drawEndlessCountry"
  /\ lastEvent.outcome = "getEndlessWeights"
  /\ state.streak = 61
  /\ state.weights.expert = 100

\* The items of the list passed to the call just made that are not the
\* excluded one.
Alternatives ==
  { c \in { state.countries[i] : i \in 1..Len(state.countries) } :
      ~Truthy(state.exclude) \/ c.id # state.exclude.id }

Drawn == game = "drawEndlessCountry" /\ lastEvent.outcome = "drawEndlessCountry"

\* C29: drawEndlessCountry returns a member of countries; it returns the
\* item with the excluded id only when countries holds no item of another
\* id.
C29_DrawAvoidsExcluded ==
  Drawn
    => /\ \E i \in 1..Len(state.countries) : state.countries[i] = state.drawn
       /\ Alternatives # {} => state.drawn \in Alternatives

\* The excluded item is in the list, along with another of the weighted
\* tier, and the other one was drawn.
C29_Witness ==
  /\ Drawn
  /\ state.countries = <<E1, E2, M1>>
  /\ state.streak = 0
  /\ state.exclude = E1
  /\ state.drawn = E2

\* C30: when some tier with nonzero weight in the streak's bracket has an
\* item other than the excluded one, the returned item's tier has nonzero
\* weight; with all weight on one tier T that has such an item, every draw
\* returns an item of tier T.
C30_DrawFollowsWeights ==
  Drawn
    => LET w == getEndlessWeights(state.streak)
       IN  (\E c \in Alternatives : w[c.tier] > 0)
             => /\ w[state.drawn.tier] > 0
                /\ \A t \in {"easy", "medium", "hard", "expert"} :
                     w[t] = 100 => state.drawn.tier = t

\* In the hard bracket, with a hard item that is not the excluded one, the
\* hard item was drawn from a list holding every tier.
C30_Witness ==
  /\ Drawn
  /\ state.countries = <<E1, M1, H1, X1>>
  /\ state.streak = 41
  /\ state.exclude = E1
  /\ state.drawn = H1

-----------------------------------------------------------------------------
(* shuffle(arr) as a call: the caller's array after the call and the array
   returned, for every outcome of Math.random() *)

\* const a = [...arr]; ...; return a
shuffleCall(arr) == { [arr |-> arr, returned |-> a] : a \in shuffle(arr) }

MaxShuffleLen == 4

\* Arrays with and without repeated elements, the empty one included.
ShuffleInputs ==
  UNION { [1..n -> {"a", "b", "c"}] : n \in 0..MaxShuffleLen }

InitShuffle ==
  /\ game = "shuffle"
  /\ \E arr \in ShuffleInputs :
       state = [input |-> arr, arr |-> arr, returned |-> <<>>]
  /\ localStorage = EmptyStorage
  /\ NoSession

Shuffle ==
  /\ game = "shuffle"
  /\ lastEvent.outcome # "shuffle"
  /\ \E r \in shuffleCall(state.arr) :
       state' = [state EXCEPT !.arr = r.arr, !.returned = r.returned]
  /\ lastEvent' = Called("shuffle")
  /\ UNCHANGED << game, phase, cachedPool, allWords, localStorage, timers,
                  inputLocked, loadError, shown, repeated, mastered >>

SpecShuffle == InitShuffle /\ [][Shuffle]_vars

\* C31: shuffle(arr) returns an array of the same length holding the same
\* elements with the same multiplicities, whatever Math.random() gives, and
\* arr itself is as it was.
C31_ShuffleIsPermutation ==
  (game = "shuffle" /\ lastEvent.outcome = "shuffle")
    => /\ Len(state.returned) = Len(state.input)
       /\ \A x \in {"a", "b", "c"} :
            Count(state.returned, x) = Count(state.input, x)
       /\ state.arr = state.input

\* An array with a repeated element came back in another order.
C31_Witness ==
  /\ game = "shuffle"
  /\ lastEvent.outcome = "shuffle"
  /\ state.input = <<"a", "a", "b", "c">>
  /\ state.returned = <<"c", "a", "b", "a">>

-----------------------------------------------------------------------------
(* matches(input, country) called on its own, on an input and on a second
   spelling of it *)

UpperChar(c) ==
  CASE c = "a" -> "A"
    [] c = "b" -> "B"
    [] c = "c" -> "C"
    [] c = "d" -> "D"
    [] c = "e" -> "E"
    [] c = "g" -> "G"
    [] c = "h" -> "H"
    [] c = "m" -> "M"
    [] c = "t" -> "T"
    [] c = "e_acute" -> "E_acute"
    [] OTHER -> c

\* The precomposed accented form of a letter, and the letter without accent.
Accented(c) ==
  CASE c = "e" -> "e_acute"
    [] c = "E" -> "E_acute"
    [] c = "e_acute" -> "e"
    [] c = "E_acute" -> "E"
    [] OTHER -> c

InsertAt(s, i, c) == SubSeq(s, 1, i) \o <<c>> \o SubSeq(s, i + 1, Len(s))

\* Other spellings of s: one letter in the other case, one accent added or
\* removed (precomposed or as a combining mark), a space added at either end,
\* a space of the text doubled.
Respellings(s) ==
  { [s EXCEPT ![i] = UpperChar(s[i])] : i \in 1..Len(s) }
  \cup { [s EXCEPT ![i] = LowerChar(s[i])] : i \in 1..Len(s) }
  \cup { [s EXCEPT ![i] = Accented(s[i])] : i \in 1..Len(s) }
  \cup { InsertAt(s, i, "comb_acute") : i \in { k \in 1..Len(s) : s[k] # " " } }
  \cup { <<" ">> \o s, s \o <<" ">> }
  \cup { InsertAt(s, i, " ") : i \in { k \in 1..Len(s) : s[k] = " " } }

MatchCountries ==
  { E1, E2, X1,
    Country(6, "easy", <<"C", "e">>, << <<"d", " ", "E_acute">>, <<"b">> >>) }

MatchInputs ==
  RawInputs \cup { <<"c", "e">>, <<"C", "E">>, <<"d", " ", "e">>, <<"d", "e">>,
                   <<"e", "comb_acute">>, <<"b", "b">>, <<"b", " ", "b">> }

InitMatches ==
  /\ game = "matches"
  /\ state \in [input : MatchInputs, country : MatchCountries,
                result : {"none"}, respelt : {<<>>}, respeltResult : {"none"}]
  /\ localStorage = EmptyStorage
  /\ NoSession

Matches ==
  /\ game = "matches"
  /\ lastEvent.outcome # "matches"
  /\ \E other \in Respellings(state.input) :
       state' = [state EXCEPT
                   !.result = matches(state.input, state.country),
                   !.respelt = other,
                   !.respeltResult = matches(other, state.country)]
  /\ lastEvent' = Called("matches")
  /\ UNCHANGED << game, phase, cachedPool, allWords, localStorage, timers,
                  inputLocked, loadError, shown, repeated, mastered >>

SpecMatches == InitMatches /\ [][Matches]_vars

\* C32: matches(input, country) is true iff the normalised input equals the
\* normalised name or a normalised alias, and a spelling of the input that
\* differs only in letter case, diacritics or leading, trailing or repeated
\* whitespace gets the same answer.
C32_MatchesNormalised ==
  (game = "matches" /\ lastEvent.outcome = "matches")
    => /\ state.result
            = (\/ normalise(state.input) = normalise(state.country.name)
               \/ \E i \in 1..Len(state.country.aliases) :
                    normalise(state.input) = normalise(state.country.aliases[i]))
       /\ state.respeltResult = state.result

\* An alias written with a capital accented letter is matched by the plain
\* lower-case input, and also with its space doubled.
C32_Witness ==
  /\ game = "matches"
  /\ lastEvent.outcome = "matches"
  /\ state.country.id = 6
  /\ state.input = <<"d", " ", "e">>
  /\ state.respelt = <<"d", " ", " ", "e">>
  /\ state.result = TRUE
  /\ state.respeltResult = TRUE

-----------------------------------------------------------------------------
(* matchAnswer(input, entry, options) called on its own and as the category
   session calls it *)

\* options: left out, { caseInsensitive: false }, { caseInsensitive: true }
MatchOptions == {"default", "caseSensitive", "caseInsensitive"}

\* { caseInsensitive = false } = {}
matchAnswerCall(input, entry, options) ==
  matchAnswer(input, entry, options = "caseInsensitive")

MatchEntries == { N1, N2, V1, V2, Word(21, <<"e_acute">>), Word(22, <<"H", "e">>) }

MatchAnswerInputs ==
  RawWordInputs \cup { <<"e">>, <<"E_acute">>, <<"e_acute", " ">>,
                       <<"h", "e">>, <<"H", "E">>, <<" ", "H", "e">>,
                       <<"H", " ", "e">> }

InitMatchAnswer ==
  /\ game = "matchAnswer"
  /\ state \in [input : MatchAnswerInputs, entry : MatchEntries,
                options : MatchOptions, category : {"nouns", "verbs"},
                result : {"none"}, inSession : {"none"}]
  /\ localStorage = EmptyStorage
  /\ NoSession

MatchAnswer ==
  /\ game = "matchAnswer"
  /\ lastEvent.outcome # "matchAnswer"
  /\ state' = [state EXCEPT
                 !.result = matchAnswerCall(state.input, state.entry,
                                            state.options),
                 !.inSession = guessMatchesCategory(state.input, state.entry,
                                                    state.category)]
  /\ lastEvent' = Called("matchAnswer")
  /\ UNCHANGED << game, phase, cachedPool, allWords, localStorage, timers,
                  inputLocked, loadError, shown, repeated, mastered >>

SpecMatchAnswer == InitMatchAnswer /\ [][MatchAnswer]_vars

\* The input without the spaces around it.
Inner(s) ==
  LET ink == { i \in 1..Len(s) : s[i] # " " }
  IN  IF ink = {} THEN <<>>
      ELSE SubSeq(s, CHOOSE i \in ink : \A j \in ink : i <= j,
                     CHOOSE i \in ink : \A j \in ink : j <= i)

SameLetters(a, b) ==
  /\ Len(a) = Len(b)
  /\ \A i \in 1..Len(a) :
       a[i] = b[i] \/ UpperChar(a[i]) = b[i] \/ a[i] = UpperChar(b[i])

\* C33: with the default options matchAnswer is true iff the trimmed input
\* is exactly entry.word (case and diacritics count); with caseInsensitive
\* true it is true iff the two are equal up to letter case; the category
\* session asks for the case-insensitive comparison exactly in 'verbs'.
C33_MatchAnswerModes ==
  (game = "matchAnswer" /\ lastEvent.outcome = "matchAnswer")
    => /\ state.options # "caseInsensitive"
            => state.result = (Inner(state.input) = state.entry.word)
       /\ state.options = "caseInsensitive"
            => state.result = SameLetters(Inner(state.input), state.entry.word)
       /\ state.category = "verbs"
            => state.inSession = SameLetters(Inner(state.input), state.entry.word)
       /\ state.category = "nouns"
            => state.inSession = (Inner(state.input) = state.entry.word)

\* 'm' against the noun 'M' with the options left out: no match, in the
\* nouns category neither.
C33_Witness ==
  /\ game = "matchAnswer"
  /\ lastEvent.outcome = "matchAnswer"
  /\ state.input = <<"m">>
  /\ state.entry = N1
  /\ state.options = "default"
  /\ state.category = "nouns"
  /\ state.result = FALSE
  /\ state.inSession = FALSE

-----------------------------------------------------------------------------
(* Startup *)

\* The items the session draws from.
ItemSet == IF game = "category" THEN state.words ELSE state.countries

\* C34: a rejected data load leaves the session on the load-error screen
\* whose retry runs init() again, with nothing shown; a load that is taken as
\* successful has delivered non-empty lists; and no item is ever on display
\* while the item set is empty.
C34_LoadFailureIsRetryable ==
  /\ [][(lastEvent'.kind = "load" /\ lastEvent'.outcome = "failed")
        => /\ phase' = "failed"
           /\ loadError' = "loadFailed"
           /\ shown' = NoShown
           /\ ~Truthy(state'.current)]_vars
  /\ [][(lastEvent'.kind = "load" /\ lastEvent'.outcome # "failed")
        => IF game = "category"
           THEN allWords'.nouns # <<>> /\ allWords'.verbs # <<>>
           ELSE state'.countries # <<>>]_vars
  /\ []((game \in {"endless", "linear", "category", "twoMode"}
           /\ (Truthy(state.current) \/ shown # NoShown))
        => ItemSet # <<>>)

\* The word-file load was rejected: the error screen, no list, nothing shown.
C34_Witness ==
  /\ game = "category"
  /\ phase = "failed"
  /\ lastEvent.kind = "load"
  /\ lastEvent.outcome = "failed"
  /\ loadError = "loadFailed"
  /\ state.words = <<>>
  /\ shown = NoShown

-----------------------------------------------------------------------------
(* The endless tier queue *)

TierItems(tier) ==
  { c \in { state.countries[i] : i \in 1..Len(state.countries) } : c.tier = tier }

\* C35: in endless mode, an advance() that finds the active tier of the
\* streak different from state.endlessTier throws the whole remaining queue
\* away, non-empty or not, and draws from a fresh shuffle of the active
\* tier's items; afterwards endlessTier is the active tier of the streak and
\* every item of remaining has that tier.
C35_TierChangeRebuildsQueue ==
  [][(game = "endless" /\ state'.mode = "endless"
        /\ lastEvent'.kind = "timer" /\ lastEvent'.outcome = "advance"
        /\ (lastEvent'.adv = "drew" \/ lastEvent'.adv = "undefined")
        /\ getActiveTier("endless", state.streak) # state.endlessTier)
     => LET tier == getActiveTier("endless", state'.streak)
            left == { state'.remaining[i] : i \in 1..Len(state'.remaining) }
        IN  /\ state'.endlessTier = tier
            /\ \A c \in left : c.tier = tier
            /\ lastEvent'.dropped = Len(state.remaining)
            /\ IF lastEvent'.adv = "drew"
               THEN /\ left \cup {state'.current} = TierItems(tier)
                    /\ Len(state'.remaining) + 1 = Cardinality(TierItems(tier))
               ELSE /\ TierItems(tier) = {}
                    /\ state'.remaining = <<>>]_vars

\* The 21st correct guess in a row: the advance() after it found an easy item
\* still queued, dropped it and drew the medium item.
C35_Witness ==
  /\ game = "endless"
  /\ state.mode = "endless"
  /\ lastEvent.kind = "timer"
  /\ lastEvent.adv = "drew"
  /\ lastEvent.dropped >= 1
  /\ state.streak = 21
  /\ state.endlessTier = "medium"
  /\ state.current = M1

-----------------------------------------------------------------------------
(* The linear-tier queue *)

\* The items of session state s that belong to its mode.
PoolItems(s) ==
  { c \in { s.countries[i] : i \in 1..Len(s.countries) } :
      s.mode = "endless" \/ c.tier = s.mode }

\* C36: in the linear-tier session every advance() that draws either takes
\* the last item of the queue and leaves the rest as it was, or, the queue
\* being empty or rebuilt, draws from a queue that holds every item of the
\* current pool exactly once: between two refills each item of the pool is
\* shown once.
C36_QueueShowsEachOnce ==
  [][(game = "linear" /\ lastEvent'.adv = "drew")
     => LET left == { state'.remaining[i] : i \in 1..Len(state'.remaining) }
        IN  IF /\ lastEvent'.kind = "timer"
               /\ lastEvent'.outcome = "advance"
               /\ state.remaining # <<>>
            THEN /\ state'.current = Last(state.remaining)
                 /\ state'.remaining = Front(state.remaining)
            ELSE /\ left \cup {state'.current} = PoolItems(state')
                 /\ Len(state'.remaining) + 1 = Cardinality(PoolItems(state'))]_vars

\* A refill in the middle of a run of guesses: the queue had run out with an
\* item on display, and the draw came from a fresh queue of the three items.
C36_Witness ==
  /\ game = "linear"
  /\ state.mode = "endless"
  /\ state.countries = <<E1, E2, M1>>
  /\ lastEvent.kind = "timer"
  /\ lastEvent.outcome = "advance"
  /\ lastEvent.adv = "drew"
  /\ Len(state.remaining) = 2
  /\ state.streak = 1

-----------------------------------------------------------------------------
(* One guess per displayed item *)

\* C37: in the endless/practice and the category session a guess that counts
\* as correct is made while animating is false, on the item on display, and
\* raises the streak by one and sets animating; until a handler that runs
\* advance() clears animating again, every further guess is dropped with the
\* state untouched.
C37_OneGuessPerItem ==
  /\ [][((game = "endless" \/ game = "category")
           /\ lastEvent'.kind = "guess"
           /\ (\/ lastEvent'.outcome = "correct"
               \/ lastEvent'.outcome = "milestone"
               \/ lastEvent'.outcome = "completion"))
        => /\ ~state.animating
           /\ state'.animating
           /\ Truthy(state.current)
           /\ shown.item = state.current
           /\ state'.current = state.current
           /\ state'.streak = state.streak + 1]_vars
  /\ [][((game = "endless" \/ game = "category")
           /\ lastEvent'.kind = "guess" /\ state.animating)
        => /\ lastEvent'.outcome = "rejected"
           /\ state' = state
           /\ timers' = timers]_vars
  /\ [][((game = "endless" \/ game = "category")
           /\ state.animating /\ ~state'.animating)
        => lastEvent'.adv # "none"]_vars

\* A second guess arrived while the first correct one was still settling.
C37_Witness ==
  /\ game = "category"
  /\ lastEvent.kind = "guess"
  /\ lastEvent.outcome = "rejected"
  /\ state.animating
  /\ state.streak = 1
  /\ timers # <<>>

-----------------------------------------------------------------------------
(* The original easy/hard session (game.js) *)

countryPoolOriginal(w) ==
  IF w.cachedPool.valid THEN w
  ELSE [w EXCEPT !.cachedPool =
          [valid |-> TRUE,
           pool |-> SelectSeq(w.state.countries,
                              LAMBDA c : c.tier = w.state.mode)]]

advanceOriginal(w0) ==
  LET w == countryPoolOriginal(w0)
      pool == w.cachedPool.pool
  IN
  IF Len(pool) = 0
  THEN { [showLoadError(w, "noItems") EXCEPT !.adv = "noItems"] }
  ELSE IF w.state.remaining = <<>>
  THEN
    { IF r = THROWN
      THEN [w EXCEPT !.thrown = TRUE, !.adv = "threw"]
      ELSE LET w2 == PopCurrent([w EXCEPT !.state.remaining = r])
           IN  showItem(w2, w2.state.current, "none", w.state.current)
      : r \in UNION { SwapRule(fresh, w.state.current) : fresh \in shuffle(pool) } }
  ELSE
    LET w2 == PopCurrent(w)
    IN  { showItem(w2, w2.state.current, "none", w.state.current) }

\* The callback of the 550/900/1500 ms timers.
SettleOriginal(w) ==
  { IF a.thrown THEN a
    ELSE setInputLocked([a EXCEPT !.state.animating = FALSE], FALSE)
    : a \in advanceOriginal(w) }

handleStreakResetOriginal(w, doShake) ==
  LET w1 == setInputLocked(
              [w EXCEPT !.state.streak = 0, !.state.animating = TRUE], TRUE)
  IN  \* showAnswer(state.current.name)
      IF ~Truthy(w1.state.current) THEN [w1 EXCEPT !.thrown = TRUE]
      ELSE setTimeout(w1, AdvanceTimer)

handleGuessOriginal(w, raw) ==
  IF w.state.animating THEN Outcome(w, "rejected")
  ELSE IF trim(raw) = <<>>
  THEN Outcome(handleStreakResetOriginal(w, FALSE), "skip")
  ELSE IF isCorrectThrows(w)
  THEN Outcome([w EXCEPT !.thrown = TRUE], "threw")
  ELSE IF matches(raw, w.state.current)
  THEN
    LET w1 == countryPoolOriginal(
                [w EXCEPT !.state.streak = @ + 1, !.state.animating = TRUE])
        isCompletion == /\ w1.state.mode = "easy"
                        /\ w1.state.streak = Len(w1.cachedPool.pool)
        isMilestone == ~isCompletion /\ w1.state.streak % 5 = 0
        w2 == setInputLocked(w1, TRUE)
    IN  IF isCompletion
        THEN Outcome(setTimeout(w2, CompletionTimer), "completion")
        ELSE Outcome(setTimeout(w2, AdvanceTimer),
                     IF isMilestone THEN "milestone" ELSE "correct")
  ELSE Outcome(handleStreakResetOriginal(w, TRUE), "wrong")

\* setMode(mode): the only early return is the one on the current mode.
setModeOriginal(w, mode) ==
  IF mode = w.state.mode THEN { Outcome(w, "same") }
  ELSE
    LET w1 == countryPoolOriginal(
                [enterMode(w, mode) EXCEPT !.state.mode = mode,
                                           !.cachedPool = NoCache,
                                           !.state.streak = 0,
                                           !.state.animating = FALSE])
    IN  UNION { { Outcome(r, "switched")
                  : r \in advanceOriginal(
                            setInputLocked([w1 EXCEPT !.state.remaining = q,
                                                      !.state.current = NULL],
                                           FALSE)) }
                : q \in shuffle(w1.cachedPool.pool) }

\* The completion callback is hideAnswer(); setMode('hard').
timerOriginal(w, callback) ==
  IF callback.kind = "completion"
  THEN { Outcome(r, "completion") : r \in setModeOriginal(w, "hard") }
  ELSE { Outcome(r, "advance") : r \in SettleOriginal(w) }

loadedOriginal(w, list) ==
  LET w1 == countryPoolOriginal(hideLoading([w EXCEPT !.state.countries = list]))
  IN  UNION { { Outcome(r, "loaded")
                : r \in advanceOriginal([w1 EXCEPT !.state.remaining = q]) }
              : q \in shuffle(w1.cachedPool.pool) }

InitialStateOriginal ==
  [ countries |-> <<>>, remaining |-> <<>>, current |-> NULL, streak |-> 0,
    animating |-> FALSE, mode |-> "easy" ]

\* Callbacks the model lets wait at once.
MaxPending == 3

InitOriginal ==
  /\ game = "original"
  /\ phase = "loading"
  /\ state = InitialStateOriginal
  /\ cachedPool = NoCache
  /\ allWords = [nouns |-> <<>>, verbs |-> <<>>]
  /\ localStorage = EmptyStorage
  /\ timers = <<>>
  /\ inputLocked = TRUE
  /\ loadError = "none"
  /\ shown = NoShown
  /\ repeated = "no"
  /\ mastered = {}
  /\ lastEvent = [kind |-> "init", outcome |-> "none", threw |-> FALSE,
                  adv |-> "none", dropped |-> 0]

\* init(): an exception of the try block is caught and shown.
LoadOriginal ==
  /\ game = "original"
  /\ phase = "loading"
  /\ \E o \in CountryFetches :
       /\ ~loadCountries(o).rejected
       /\ \E w \in loadedOriginal(World, loadCountries(o).value) :
            /\ Commit("load", IF w.thrown THEN showLoadError(w, "exception") ELSE w)
            /\ phase' = IF w.thrown THEN "crashed" ELSE "ready"
  /\ UNCHANGED << game, allWords >>

\* Enter pressed: handleGuess(input.value).  showLoading() disables the input
\* until hideLoading().
HandleGuessOriginal ==
  /\ game = "original"
  /\ phase \in {"ready", "crashed"}
  /\ \E raw \in RawInputs :
       LET w == handleGuessOriginal(World, raw)
       IN  /\ w.outcome \in {"correct", "milestone", "completion"}
             => state.streak < StreakCap(state)
           /\ Len(w.timers) <= MaxPending
           /\ Commit("guess", w)
  /\ UNCHANGED << game, phase, allWords >>

\* A .mode-btn clicked: setMode(btn.dataset.mode).  The buttons are wired
\* before the data load and setInputLocked() leaves them enabled.
SetModeOriginal ==
  /\ game = "original"
  /\ \E mode \in {"easy", "hard"} : \E w \in setModeOriginal(World, mode) :
       Commit("setMode", w)
  /\ UNCHANGED << game, phase, allWords >>

TimerOriginal ==
  /\ game = "original"
  /\ \E i \in 1..Len(timers) :
       \E w \in timerOriginal([World EXCEPT !.timers = RemoveAt(timers, i)], timers[i]) :
         Commit("timer", w)
  /\ UNCHANGED << game, phase, allWords >>

\* showLoadError(err.message) is called without a retry callback.
NextOriginal ==
  \/ LoadOriginal
  \/ LoadFail
  \/ HandleGuessOriginal
  \/ SetModeOriginal
  \/ TimerOriginal

SpecOriginal == InitOriginal /\ [][NextOriginal]_vars

\* C38: in the original easy/hard session at most one deferred continuation
\* is pending at any time, and none is pending while animating is false.
C38_OneContinuation ==
  game = "original"
    => /\ Len(timers) <= 1
       /\ ~state.animating => timers = <<>>

-----------------------------------------------------------------------------
(* The category session: each category's record *)

\* C39: in the category session no event changes the stored high score of a
\* category other than the one active when the event began, and the nouns and
\* verbs high scores are stored under distinct keys.
C39_OtherRecordUntouched ==
  /\ [](game = "category" => scoreKey("nouns") # scoreKey("verbs"))
  /\ [][ (game = "category")
         => \A c \in CategoryInputs :
              c # state.category
                => getItem(localStorage', scoreKey(c))
                     = getItem(localStorage, scoreKey(c)) ]_vars

\* A switch away from nouns has raised the nouns record; the verbs record is
\* the one found at startup.
C39_Witness ==
  /\ game = "category"
  /\ Switched(lastEvent)
  /\ state.category = "verbs"
  /\ getHighScoreOf(localStorage, "nouns") > EarlierNounRecord
  /\ getItem(localStorage, scoreKey("verbs")) = NumberToString(EarlierVerbRecord)

-----------------------------------------------------------------------------
(* The endless/practice session: the input lock *)

=============================================================================
